---- MODULE Spec2Model ----
(***************************************************************************)
(* A model of the ImLazy task execution engine (parser/parser.go):        *)
(* runCommandWithVisited with its hooks, dependencies, retry loop,        *)
(* change-gate and process runner, Validate with checkCircularDeps, the   *)
(* parallel fan-out of dependencies and commands, FuzzyMatch,             *)
(* MatchWildcard, ResolveCommandName, interpolateVariables, the command   *)
(* history and the loading of included files; of a run in parallel mode   *)
(* as a tree of goroutines; of main's expansion of wildcard arguments;    *)
(* and of the debounce timer and the callback of the watcher              *)
(* (watcher/watcher.go).                                                  *)
(***************************************************************************)
EXTENDS Integers, Sequences, FiniteSets, TLC

VARIABLES
    cfg,        \* the loaded Config: Commands (name -> Command) and Settings
    stack,      \* call stack of runCommandWithVisited, innermost frame last
    visiting,   \* the visiting map of the current top-level call (names mapped to true)
    ret,        \* the error returned by the call that returned last (NoErr for nil)
    cwd,        \* the process working directory
    mtime,      \* modification time of every file of the project
    cache,      \* .lazy/if_changed.json: cache key -> fingerprint
    proc,       \* the child process of the timed command in flight
    log,        \* what the current top-level call has done so far, in order
    runs,       \* top-level calls the behaviour may still start
    touched,    \* files modified since the last top-level call started
    cur,        \* the options of the current (or last) top-level call
    prev,       \* a summary of the top-level call before it
    verrors,    \* whether Validate() was called, and the errors it returned
    env,        \* the process environment: pairs <<name, value>>
    par,        \* a parallel fan-out: its branches and its error channel
    match,      \* a call of FuzzyMatch: its input, the orders of its loops, its result
    cli,        \* main: its arguments, the commands it expanded them to, its exit
    history,    \* .lazy/history.json: the entries, oldest first
    load,       \* a call of ReadToml: the include files it is reading, its result
    watch,      \* the watcher: its debounce timer, the events and the re-runs so far
    call,       \* a call of a function of Config: its name, its input, its result
    tree        \* a run in parallel mode: its calls, one goroutine each, and their maps

\* What the execution engine leaves alone.
frontVars == <<cli, history, load, watch, call, tree>>

vars == <<cfg, stack, visiting, ret, cwd, mtime, cache, proc, log, runs, touched,
          cur, prev, verrors, env, par, match, cli, history, load, watch, call, tree>>

(***************************************************************************)
(* Bounds of the model.                                                    *)
(***************************************************************************)
MaxGateRuns == 3
MaxRetry == 3
MaxMtime == 2
MaxDeps == 1

(***************************************************************************)
(* Names.  Strings are opaque to TLC, so the characters of every name the  *)
(* model uses are tabulated for the edit distance.                         *)
(***************************************************************************)
Chars(s) ==
    CASE s = "build" -> <<"b", "u", "i", "l", "d">>
      [] s = "test"  -> <<"t", "e", "s", "t">>
      [] s = "lint"  -> <<"l", "i", "n", "t">>
      [] s = "t"     -> <<"t">>
      [] s = "b"     -> <<"b">>
      [] s = "biuld" -> <<"b", "i", "u", "l", "d">>
      [] s = "nope"  -> <<"n", "o", "p", "e">>
      [] s = "built" -> <<"b", "u", "i", "l", "t">>
      [] s = "deploy" -> <<"d", "e", "p", "l", "o", "y">>
      [] s = "bld"   -> <<"b", "l", "d">>
      [] s = "blt"   -> <<"b", "l", "t">>
      [] s = "dep"   -> <<"d", "e", "p">>
      [] s = "buil"  -> <<"b", "u", "i", "l">>
      [] s = "bl"    -> <<"b", "l">>
      [] s = "tset"  -> <<"t", "s", "e", "t">>
      [] s = "txxx"  -> <<"t", "x", "x", "x">>
      [] s = "dploy" -> <<"d", "p", "l", "o", "y">>
      [] s = "dexxxy" -> <<"d", "e", "x", "x", "x", "y">>
      [] s = "dxxxxy" -> <<"d", "x", "x", "x", "x", "y">>
      [] s = "test:unit" -> <<"t", "e", "s", "t", ":", "u", "n", "i", "t">>
      [] s = "test:integration" -> <<"t", "e", "s", "t", ":", "i", "n", "t", "e", "g", "r", "a", "t", "i", "o", "n">>
      [] s = "build:dev" -> <<"b", "u", "i", "l", "d", ":", "d", "e", "v">>
      [] s = "test:e2e" -> <<"t", "e", "s", "t", ":", "e", "2", "e">>
      [] s = "test:*" -> <<"t", "e", "s", "t", ":", "*">>
      [] s = "build:*" -> <<"b", "u", "i", "l", "d", ":", "*">>
      [] s = "lint:*" -> <<"l", "i", "n", "t", ":", "*">>
      [] s = "*:unit" -> <<"*", ":", "u", "n", "i", "t">>
      [] s = "*" -> <<"*">>
      [] s = "gen" -> <<"g", "e", "n">>
      [] s = "fmt" -> <<"f", "m", "t">>
      [] OTHER       -> <<>>

Range(s) == {s[k] : k \in 1..Len(s)}

NoErr == <<>>

min(S) == CHOOSE x \in S : \A y \in S : x <= y

\* Row i of the matrix (1207-1218), filled from left to right: above is row
\* i - 1, row the cells of row i filled so far; cell j is kept at index j + 1.
RECURSIVE MatrixRow(_, _, _, _, _)
MatrixRow(above, row, i, a, b) ==
    IF Len(row) = Len(b) + 1 THEN row
    ELSE LET j == Len(row)
             cost == IF a[i] = b[j] THEN 0 ELSE 1
         IN  MatrixRow(above, Append(row, min({above[j + 1] + 1,
                                               row[j] + 1,
                                               above[j] + cost})), i, a, b)

\* Rows i to len(a) of the matrix, given row i - 1; the result is the last row.
RECURSIVE MatrixRows(_, _, _, _)
MatrixRows(above, i, a, b) ==
    IF i > Len(a) THEN above
    ELSE MatrixRows(MatrixRow(above, <<i>>, i, a, b), i + 1, a, b)

levenshteinDistance(a, b) ==
    IF Len(a) = 0 THEN Len(b)
    ELSE IF Len(b) = 0 THEN Len(a)
    ELSE MatrixRows([j \in 1..(Len(b) + 1) |-> j - 1], 1, a, b)[Len(b) + 1]

\* The names of the model and their pairwise distances, computed once.
Names == {"build", "test", "lint", "t", "b", "biuld", "nope", "built", "deploy", "bld",
          "blt", "dep", "buil", "bl", "tset", "txxx", "dploy", "dexxxy", "dxxxxy",
          "test:unit", "test:integration", "build:dev", "test:e2e", "test:*", "build:*", "lint:*", "*:unit", "*",
          "gen", "fmt"}

Distance == [a \in Names, b \in Names |-> levenshteinDistance(Chars(a), Chars(b))]

(***************************************************************************)
(* The configuration: Command (parser.go 98-114) and Config (35-44).       *)
(* Run is the default list of PlatformRun and RunByOS its per-OS lists, as  *)
(* pairs <<os, list>>; a body command is named by its text.  IfChanged is  *)
(* the pattern list, Env the env table as pairs <<name, value>>.           *)
(***************************************************************************)
Cmd(run, dep, pre, post) ==
    [Run |-> run, Dep |-> dep, Pre |-> pre, Post |-> post, PostAlways |-> FALSE,
     Retry |-> 0, RetryDelay |-> "", IfChanged |-> <<>>, Dir |-> "", Timeout |-> "",
     Alias |-> <<>>, Env |-> {}, RunByOS |-> {}]

\* runtime.GOOS of the host.
GOOS == "linux"

\* GetForCurrentPlatform (90-95).
GetForCurrentPlatform(cmd) ==
    IF \E p \in cmd.RunByOS : p[1] = GOOS
    THEN (CHOOSE p \in cmd.RunByOS : p[1] = GOOS)[2]
    ELSE cmd.Run

\* A runner for which a task without commands is a task that does nothing.
NoRunCommandsNever(cmd) == FALSE

\* Line 480: the selected list is empty.
NoRunCommands(cmd) == Len(GetForCurrentPlatform(cmd)) = 0

\* The words of a command text.
Tokens(s) ==
    CASE s = "go build"          -> <<"go", "build">>
      [] s = "go generate"       -> <<"go", "generate">>
      [] s = "go test"           -> <<"go", "test">>
      [] s = "go vet {{args}} ." -> <<"go", "vet", "{{args}}", ".">>
      [] s = "golint"            -> <<"golint">>
      [] s = "golint {{args}}"   -> <<"golint", "{{args}}">>
      [] s = "true"              -> <<"true">>
      [] OTHER                   -> <<s>>

\* The variable a word of the form {{name}} names ("" for any other word): the
\* pattern of line 331.
VarOf(tok) ==
    CASE tok = "{{args}}" -> "args"
      [] tok = "{{os}}"   -> "os"
      [] tok = "{{arch}}" -> "arch"
      [] tok = "{{cwd}}"  -> "cwd"
      [] tok = "{{name}}" -> "name"
      [] tok = "{{version}}" -> "version"
      [] tok = "{{undefined}}" -> "undefined"
      [] OTHER            -> ""

RECURSIVE Flatten(_)
Flatten(ss) == IF ss = <<>> THEN <<>> ELSE Head(ss) \o Flatten(Tail(ss))

\* The [variables] table of the configuration: name -> value, a value being
\* a list of words like every string that is interpolated.
Variables == cfg.Variables

\* runtime.GOARCH of the host.
GOARCH == "amd64"

\* Lines 324-328.
builtins == [os |-> <<GOOS>>, arch |-> <<GOARCH>>, cwd |-> <<cwd>>]

\* A value that is searched for the variables of the configuration again
\* before it is put in.
Rescanned(val) ==
    Flatten([k \in 1..Len(val) |->
                IF VarOf(val[k]) # "" /\ VarOf(val[k]) \in DOMAIN Variables
                THEN Variables[VarOf(val[k])] ELSE <<val[k]>>])

\* Lines 339, 344, 349: the value is what replaces the match.
Replacement(val) == val

\* interpolateVariables (322-355) on the words of its input: extraVars first,
\* then the variables of the configuration, then the built-in variables; an
\* unknown variable is left as written.
interpolateVariables(input, extraVars) ==
    Flatten([k \in 1..Len(input) |->
                LET v == VarOf(input[k])
                IN  IF v # "" /\ v \in DOMAIN extraVars THEN Replacement(extraVars[v])
                    ELSE IF v # "" /\ v \in DOMAIN Variables THEN Replacement(Variables[v])
                    ELSE IF v # "" /\ v \in DOMAIN builtins THEN Replacement(builtins[v])
                    ELSE <<input[k]>>])

\* A command line that gets the arguments in place of the token and at its end.
CommandLineAppendAlways(command, args) ==
    interpolateVariables(Tokens(command), [args |-> args]) \o args

\* Lines 698-704: the command line executeCommands runs for a body command.
CommandLine(command, args) ==
    LET interpolatedCmd == interpolateVariables(Tokens(command), [args |-> args])
    IN  IF Len(args) > 0 /\ "{{args}}" \notin Range(Tokens(command))
        THEN interpolatedCmd \o args
        ELSE interpolatedCmd

\* os.Setenv for every entry of an env table.
Setenv(e, table) == {p \in e : \A q \in table : q[1] # p[1]} \cup table

Commands == cfg.Commands

buildAliasMap(commands) ==
    LET aliases == UNION {Range(commands[n].Alias) : n \in DOMAIN commands}
    IN  [al \in aliases |-> CHOOSE n \in DOMAIN commands : al \in Range(commands[n].Alias)]

aliasMap == buildAliasMap(Commands)

\* buildAliasMap with its loop visiting the tasks in the order given: of the
\* tasks that declare an alias, the one visited last keeps it.
RECURSIVE buildAliasMapIn(_, _)
buildAliasMapIn(commands, order) ==
    IF order = <<>> THEN <<>>
    ELSE LET name == order[Len(order)]
             before == buildAliasMapIn(commands, SubSeq(order, 1, Len(order) - 1))
         IN  [al \in DOMAIN before \cup Range(commands[name].Alias) |->
                  IF al \in Range(commands[name].Alias) THEN name ELSE before[al]]

\* A lookup that finds no task.
IsCommandNever(name, commands) == FALSE

\* Line 288: the name is a key of c.Commands.
IsCommand(name, commands) == name \in DOMAIN commands

\* ResolveCommandName (286-295) over the tasks and the alias map given.
ResolveCommandNameIn(name, commands, aliases) ==
    IF IsCommand(name, commands) THEN name
    ELSE IF name \in DOMAIN aliases THEN aliases[name]
    ELSE name

ResolveCommandName(name) == ResolveCommandNameIn(name, Commands, aliasMap)

(***************************************************************************)
(* FuzzyMatch (1137-1185).  The two loops range over Go maps; they are     *)
(* folded here over one enumeration of each map.                           *)
(***************************************************************************)
FuzzyShortLen == 5
FuzzyShortThreshold == 2
FuzzyLongThreshold == 3

RECURSIVE SetToSeq(_)
SetToSeq(S) ==
    IF S = {} THEN <<>>
    ELSE LET x == CHOOSE y \in S : TRUE IN <<x>> \o SetToSeq(S \ {x})

\* A loop that keeps the first of the names at the best distance.
TiesNever(isAlias, st, cmdName) == FALSE

\* Lines 1157 and 1174: what makes a name at the best distance a tie.
Ties(isAlias, st, cmdName) == ~isAlias \/ st.bestMatch # cmdName

RECURSIVE FuzzyLoop(_, _, _, _, _)
FuzzyLoop(st, keys, target, isAlias, name) ==
    IF keys = <<>> THEN st
    ELSE LET key == Head(keys)
             cmdName == target[key]
             threshold == IF Len(Chars(name)) > FuzzyShortLen
                          THEN FuzzyLongThreshold ELSE FuzzyShortThreshold
             dist == Distance[name, key]
             nxt == IF dist <= threshold
                    THEN IF st.bestDistance = -1 \/ dist < st.bestDistance
                         THEN [bestMatch |-> cmdName, bestDistance |-> dist,
                               ambiguous |-> FALSE]
                         ELSE IF dist = st.bestDistance /\ Ties(isAlias, st, cmdName)
                              THEN [st EXCEPT !.ambiguous = TRUE]
                              ELSE st
                    ELSE st
         IN  FuzzyLoop(nxt, Tail(keys), target, isAlias, name)

\* FuzzyMatch with its loops visiting the keys in the orders given.
FuzzyMatchIn(name, cmdKeys, aliasKeys) ==
    LET st0 == [bestMatch |-> "", bestDistance |-> -1, ambiguous |-> FALSE]
        st1 == FuzzyLoop(st0, cmdKeys, [n \in DOMAIN Commands |-> n], FALSE, name)
        st2 == FuzzyLoop(st1, aliasKeys, aliasMap, TRUE, name)
    IN  IF st2.ambiguous \/ st2.bestDistance = -1 THEN "" ELSE st2.bestMatch

FuzzyMatch(name) ==
    FuzzyMatchIn(name, SetToSeq(DOMAIN Commands), SetToSeq(DOMAIN aliasMap))

NoMatch == [done |-> FALSE, name |-> "", cmdKeys |-> <<>>, aliasKeys |-> <<>>, result |-> ""]

(***************************************************************************)
(* The change-gate (907-1006).  The fingerprint is a SHA-256 over the path *)
(* and the modification time of every file the patterns match under the    *)
(* process working directory; it is modelled by that list itself.  The     *)
(* project has one matching file in its root and one in the directory sub. *)
(***************************************************************************)
Files == {"main.go", "sub/lib.go"}

FilesIn(dir) ==
    CASE dir = "."   -> {"main.go"}
      [] dir = "sub" -> {"sub/lib.go"}
      [] OTHER       -> {}

ExistingDirs == {".", "sub", "web"}

hashMatchingFiles(patterns, dir, mt) ==
    IF patterns = <<>> THEN <<>>
    ELSE [k \in 1..Len(SetToSeq(FilesIn(dir))) |->
             <<SetToSeq(FilesIn(dir))[k], mt[SetToSeq(FilesIn(dir))[k]]>>]

cacheKey(cmdName, patterns) == <<cmdName, patterns>>

checkIfChanged(cmdName, patterns) ==
    LET currentHash == hashMatchingFiles(patterns, cwd, mtime)
        key == cacheKey(cmdName, patterns)
    IN  IF key \in DOMAIN cache THEN currentHash # cache[key] ELSE TRUE

updateIfChangedCache(cmdName, patterns) ==
    LET key == cacheKey(cmdName, patterns)
    IN  [k \in DOMAIN cache \cup {key} |->
            IF k = key THEN hashMatchingFiles(patterns, cwd, mtime) ELSE cache[k]]

ParseDuration(s) == s \in {"1s"}

(***************************************************************************)
(* runCommandWithVisited (451-693) as a stack machine.  A frame is one     *)
(* call; pc is the place the call has reached, i the index of the loop it  *)
(* is in.  A log entry records one thing a call did: d is the depth of the *)
(* call (1 for the task named at the top level) and n the body attempt.    *)
(* entryDir and entryVisiting are the working directory and the names      *)
(* marked in the visiting map when the call was made.                      *)
(***************************************************************************)
Frame(name, isDep, dryRun, force, args) ==
    [name |-> name, task |-> "", IsDependency |-> isDep, DryRun |-> dryRun,
     Force |-> force, Args |-> args, pc |-> "entry", i |-> 1, attempt |-> 0,
     maxAttempts |-> 0, lastErr |-> NoErr, chdir |-> FALSE, originalDir |-> "",
     entryDir |-> cwd, entryVisiting |-> visiting]

Depth == Len(stack)
Top == stack[Depth]
SetTop(f) == [stack EXCEPT ![Depth] = f]
At(pc) == Depth > 0 /\ Top.pc = pc
TopCmd == Commands[Top.task]
runCommands == GetForCurrentPlatform(TopCmd)

Ev(e, d, name, x, n) == [ev |-> e, d |-> d, name |-> name, x |-> x, n |-> n]

\* A body command the innermost call starts (or reports, in a dry run): its
\* text, the command line made of it, the environment the child inherits.
CmdEv(command, x) ==
    [ev |-> "cmd", d |-> Depth, name |-> command, x |-> x, n |-> Top.attempt,
     task |-> Top.task, line |-> CommandLine(command, Top.Args), env |-> env]

\* No parallel fan-out is under way.
NoFanOut == [kind |-> "", items |-> <<>>, branch |-> <<>>, errChan |-> <<>>,
             joined |-> FALSE, result |-> NoErr]

Idle == [child |-> "none", group |-> "none", ran |-> 0, timer |-> 0]

\* What is remembered of a finished top-level call: the task it ran, whether
\* it was a dry run, whether it returned nil.
NoRun == [task |-> "", DryRun |-> FALSE, ok |-> FALSE]

Summary ==
    IF log = <<>> THEN NoRun
    ELSE [task |-> log[Len(log)].name, DryRun |-> cur.DryRun, ok |-> ret = NoErr]

\* A call that leaves the process where its task's directory change put it.
NoDeferredChdir(f) == cwd

\* Line 602: the deferred os.Chdir(originalDir) of a call that changed the
\* working directory.
DeferredChdir(f) == IF f.chdir THEN f.originalDir ELSE cwd

\* A return of the innermost call: the deferred os.Chdir(originalDir) runs, the
\* caller (or the command line) gets err.
Return(f, err, evs) ==
    LET lg == log \o evs \o <<Ev("ret", Depth, f.task, IF err = NoErr THEN "ok" ELSE "err", 0)>>
    IN  /\ stack' = SubSeq(stack, 1, Depth - 1)
        /\ ret' = err
        /\ cwd' = DeferredChdir(f)
        /\ log' = lg

\* A call of runCommandWithVisited for a hook or a dependency (516-519, 541-544,
\* 665-668): Args cleared, IsDependency set.
Call(kind, name, waitpc) ==
    /\ stack' = Append(SetTop([Top EXCEPT !.pc = waitpc]),
                       Frame(name, TRUE, Top.DryRun, Top.Force, <<>>))
    /\ log' = Append(log, Ev("call", Depth + 1, name, kind, Top.i))
    /\ UNCHANGED <<ret, cwd>>

\* RunCommandWithOptions (447-449): a fresh visiting map.
RunCommandWithOptions(name, dryRun, force, args) ==
    /\ stack = <<>>
    /\ runs > 0
    /\ runs' = runs - 1
    /\ stack' = <<[Frame(name, FALSE, dryRun, force, args) EXCEPT !.entryVisiting = {}]>>
    /\ visiting' = {}
    /\ ret' = NoErr
    /\ log' = <<Ev("call", 1, name, "top", 0)>>
    /\ cur' = [DryRun |-> dryRun, Force |-> force, touched |-> touched, cache |-> cache,
                Args |-> args, env |-> env, cwd |-> cwd]
    /\ prev' = Summary
    /\ touched' = {}
    /\ UNCHANGED <<cfg, cwd, mtime, cache, proc, verrors, env, par, match, frontVars>>

\* A change-gate consulted in every run of a task that declares patterns.
GateAppliesAlways(cmd, f) == Len(cmd.IfChanged) > 0

\* Whether the change-gate is consulted (486).
GateApplies(cmd, f) ==
    Len(cmd.IfChanged) > 0 /\ ~f.Force /\ ~f.DryRun /\ ~f.IsDependency

\* Lines 452-508: resolve, cycle check, lookup with the fuzzy fallback, the empty
\* body, the change-gate.  loadEnvFiles only sets environment variables.
Enter ==
    /\ At("entry")
    /\ LET resolvedName == ResolveCommandName(Top.name)
           f == [Top EXCEPT !.task = resolvedName]
       IN  IF resolvedName \in visiting
           THEN Return(f, <<"circular dependency detected", resolvedName>>, <<>>)
           ELSE IF resolvedName \notin DOMAIN Commands
           THEN IF FuzzyMatch(Top.name) # ""
                THEN /\ stack' = SetTop([Top EXCEPT !.name = FuzzyMatch(Top.name)])
                     /\ log' = Append(log, Ev("fuzzy", Depth, FuzzyMatch(Top.name), Top.name, 0))
                     /\ UNCHANGED <<ret, cwd>>
                ELSE Return(f, <<"command not found", Top.name>>, <<>>)
           ELSE IF NoRunCommands(Commands[resolvedName])
           THEN Return(f, <<"no run commands defined", resolvedName>>, <<>>)
           ELSE IF GateApplies(Commands[resolvedName], Top)
                   /\ ~checkIfChanged(resolvedName, Commands[resolvedName].IfChanged)
           THEN Return(f, NoErr, <<Ev("skip", Depth, resolvedName, "", 0)>>)
           ELSE /\ stack' = SetTop([f EXCEPT !.pc = "pre", !.i = 1])
                /\ UNCHANGED <<ret, cwd, log>>
    /\ UNCHANGED <<cfg, visiting, mtime, cache, proc, runs, touched, cur, prev, verrors, env, par, match, frontVars>>

\* Pre-hooks that run for dependencies and hooks too.
PreHooksRunForDependencies(cmd, f) == Len(cmd.Pre) > 0

\* Line 511.
PreHooksRun(cmd, f) == Len(cmd.Pre) > 0 /\ ~f.IsDependency

\* Lines 510-523: the pre-hooks, only for the task named at the top level.
CallPreHook ==
    /\ At("pre")
    /\ PreHooksRun(TopCmd, Top)
    /\ Top.i <= Len(TopCmd.Pre)
    /\ Call("pre", TopCmd.Pre[Top.i], "preRet")
    /\ UNCHANGED <<cfg, visiting, mtime, cache, proc, runs, touched, cur, prev, verrors, env, par, match, frontVars>>

PreHookReturned ==
    /\ At("preRet")
    /\ IF ret # NoErr
       THEN Return(Top, <<"pre-hook failed for command", TopCmd.Pre[Top.i], Top.task>> \o ret, <<>>)
       ELSE /\ stack' = SetTop([Top EXCEPT !.pc = "pre", !.i = Top.i + 1])
            /\ UNCHANGED <<ret, cwd, log>>
    /\ UNCHANGED <<cfg, visiting, mtime, cache, proc, runs, touched, cur, prev, verrors, env, par, match, frontVars>>

\* A task that leaves no mark.
NoMark(vis, name) == vis

\* Line 527: visiting[resolvedName] = true.
Mark(vis, name) == vis \cup {name}

\* Lines 525-527: the task is marked as visiting when it has dependencies.
StartDeps ==
    /\ At("pre")
    /\ ~PreHooksRun(TopCmd, Top) \/ Top.i > Len(TopCmd.Pre)
    /\ stack' = SetTop([Top EXCEPT !.pc = "dep", !.i = 1])
    /\ visiting' = IF Len(TopCmd.Dep) > 0 THEN Mark(visiting, Top.task) ELSE visiting
    /\ UNCHANGED <<cfg, ret, cwd, mtime, cache, proc, log, runs, touched, cur, prev, verrors, env, par, match, frontVars>>

\* Lines 534-547: sequential dependencies, in declared order.
CallDep ==
    /\ At("dep")
    /\ ~cfg.Parallel
    /\ Top.i <= Len(TopCmd.Dep)
    /\ Call("dep", TopCmd.Dep[Top.i], "depRet")
    /\ UNCHANGED <<cfg, visiting, mtime, cache, proc, runs, touched, cur, prev, verrors, env, par, match, frontVars>>

\* A runner that goes on after a failed dependency.
DepAbortsNever(err) == FALSE

\* What follows a dependency's return (544-546): TRUE aborts the dependent.
DepAborts(err) == err # NoErr

DepReturned ==
    /\ At("depRet")
    /\ IF DepAborts(ret)
       THEN Return(Top, <<"dependency failed for command", TopCmd.Dep[Top.i], Top.task>> \o ret, <<>>)
       ELSE /\ stack' = SetTop([Top EXCEPT !.pc = "dep", !.i = Top.i + 1])
            /\ UNCHANGED <<ret, cwd, log>>
    /\ UNCHANGED <<cfg, visiting, mtime, cache, proc, runs, touched, cur, prev, verrors, env, par, match, frontVars>>

\* A runner that sets the environment in a dry run too.
SetsEnvAlways(f) == TRUE

\* Lines 555-561 and 567-573: a dry run prints the assignment, any other run
\* makes it.
SetsEnv(f) == ~f.DryRun

\* retry read as the total number of attempts.
MaxAttemptsTotal(retry) == IF retry > 0 THEN retry ELSE 1

\* Lines 626-630.
MaxAttempts(retry) == IF retry > 0 THEN retry + 1 ELSE 1

\* Lines 549-630: the mark is cleared, the environment set from the global and
\* the task's env table (552-574), the working directory changed (with the
\* restore deferred to the return of the call), the durations parsed, the
\* number of attempts fixed.
PrepareBody ==
    /\ At("dep")
    /\ Top.i > Len(TopCmd.Dep)
    /\ visiting' = IF Len(TopCmd.Dep) > 0 THEN visiting \ {Top.task} ELSE visiting
    /\ env' = IF SetsEnv(Top) THEN Setenv(Setenv(env, cfg.Env), TopCmd.Env) ELSE env
    /\ LET dir == TopCmd.Dir
           moved == dir # "" /\ ~Top.DryRun
           f == IF moved THEN [Top EXCEPT !.chdir = TRUE, !.originalDir = cwd] ELSE Top
       IN  IF moved /\ dir \notin ExistingDirs
           THEN Return(Top, <<"failed to change to directory", dir>>, <<>>)
           ELSE IF TopCmd.Timeout # "" /\ ~ParseDuration(TopCmd.Timeout)
           THEN Return(f, <<"invalid timeout", TopCmd.Timeout>>, <<>>)
           ELSE IF TopCmd.RetryDelay # "" /\ ~ParseDuration(TopCmd.RetryDelay)
           THEN Return(f, <<"invalid retry_delay", TopCmd.RetryDelay>>, <<>>)
           ELSE /\ stack' = SetTop([f EXCEPT !.pc = "body", !.i = 1, !.attempt = 1,
                                             !.maxAttempts = MaxAttempts(TopCmd.Retry)])
                /\ cwd' = IF moved THEN dir ELSE cwd
                /\ log' = Append(log, Ev("attempt", Depth, Top.task, "", 1))
                /\ UNCHANGED ret
    /\ UNCHANGED <<cfg, mtime, cache, proc, runs, touched, cur, prev, verrors, par, match, frontVars>>

(***************************************************************************)
(* The retry loop (632-656) around executeCommands (696-789).              *)
(***************************************************************************)
\* executeCommands returned err # nil: lines 649-656.
FailAttempt(f, err) ==
    IF f.attempt < f.maxAttempts
    THEN [f EXCEPT !.lastErr = err, !.attempt = f.attempt + 1, !.i = 1, !.pc = "body"]
    ELSE [f EXCEPT !.lastErr = err, !.i = 1, !.pc = "post"]

RetryEvents(f) ==
    IF f.attempt < f.maxAttempts
    THEN <<Ev("attempt", Depth, f.task, "", f.attempt + 1)>>
    ELSE <<>>

\* Lines 706-711: a dry run reports the command and goes on.
DryRunCommand ==
    /\ At("body")
    /\ Top.i <= Len(runCommands)
    /\ Top.DryRun
    /\ stack' = SetTop([Top EXCEPT !.i = Top.i + 1])
    /\ log' = Append(log, CmdEv(runCommands[Top.i], "dry"))
    /\ UNCHANGED <<cfg, visiting, ret, cwd, mtime, cache, proc, runs, touched, cur, prev, verrors, env, par, match, frontVars>>

\* Lines 778-786: no timeout, cmdline.Run() directly.
RunCommand ==
    /\ At("body")
    /\ Top.i <= Len(runCommands)
    /\ ~Top.DryRun
    /\ TopCmd.Timeout = ""
    /\ \E ok \in BOOLEAN :
         LET command == runCommands[Top.i]
         IN  /\ stack' = SetTop(IF ok THEN [Top EXCEPT !.i = Top.i + 1]
                                ELSE FailAttempt(Top, <<"command failed", command>>))
             /\ log' = log \o <<CmdEv(command, ""),
                                Ev("res", Depth, command, IF ok THEN "ok" ELSE "failed", Top.attempt)>>
                           \o (IF ok THEN <<>> ELSE RetryEvents(Top))
    /\ UNCHANGED <<cfg, visiting, ret, cwd, mtime, cache, proc, runs, touched, cur, prev, verrors, env, par, match, frontVars>>

\* The duration a timeout string stands for, in ticks of the model's clock.
Duration(s) == IF s = "1s" THEN 1 ELSE 0

\* The context of a timed command is created inside the loop over the commands
\* (721): its timer starts with the command.
TimerAtSpawn(f) == 0

\* Lines 717-750: a timed command is started in its own process group (742),
\* under a context that expires after the timeout.  group stands for the other
\* processes of that group, the ones the command started itself.
SpawnTimed ==
    /\ At("body")
    /\ Top.i <= Len(runCommands)
    /\ ~Top.DryRun
    /\ TopCmd.Timeout # ""
    /\ stack' = SetTop([Top EXCEPT !.pc = "select"])
    /\ proc' = [child |-> "running", group |-> "alive", ran |-> 0,
                timer |-> TimerAtSpawn(Top)]
    /\ log' = Append(log, CmdEv(runCommands[Top.i], ""))
    /\ UNCHANGED <<cfg, visiting, ret, cwd, mtime, cache, runs, touched, cur, prev, verrors, env, par, match, frontVars>>

\* Time passes while the runner is blocked in the select of line 752.
Tick ==
    /\ At("select")
    /\ proc.timer < Duration(TopCmd.Timeout)
    /\ proc' = [proc EXCEPT !.ran = proc.ran + 1, !.timer = proc.timer + 1]
    /\ UNCHANGED <<cfg, stack, visiting, ret, cwd, mtime, cache, log, runs, touched, cur,
                   prev, verrors, env, par, match, frontVars>>

\* The runner is blocked in the select from the moment the child is started, so
\* the select takes the case of the event that occurs first.
\* case err := <-errChan (753-758): the child ended by itself.
SelectErrChan ==
    /\ At("select")
    /\ \E ok \in BOOLEAN :
         LET command == runCommands[Top.i]
         IN  /\ stack' = SetTop(IF ok THEN [Top EXCEPT !.i = Top.i + 1, !.pc = "body"]
                                ELSE FailAttempt(Top, <<"command failed", command>>))
             /\ log' = Append(log, Ev("res", Depth, command,
                                      IF ok THEN "ok" ELSE "failed", Top.attempt))
                           \o (IF ok THEN <<>> ELSE RetryEvents(Top))
    /\ proc' = [proc EXCEPT !.child = "exited"]
    /\ UNCHANGED <<cfg, visiting, ret, cwd, mtime, cache, runs, touched, cur, prev, verrors, env, par, match, frontVars>>

\* A kill of the direct child alone.
KillChildOnly(p) == [p EXCEPT !.child = "killed"]

\* What syscall.Kill(-pid, SIGKILL) of line 762 does to the child and its group.
KillGroup(p) == [p EXCEPT !.child = "killed", !.group = "killed"]

\* case <-ctx.Done() (759-766): the timer fired while the child was running.
SelectCtxDone ==
    /\ At("select")
    /\ proc.timer >= Duration(TopCmd.Timeout)
    /\ LET command == runCommands[Top.i]
       IN  /\ stack' = SetTop(FailAttempt(Top, <<"command timed out", TopCmd.Timeout, command>>))
           /\ log' = Append(log, Ev("res", Depth, command, "timed out", Top.attempt))
                         \o RetryEvents(Top)
    /\ proc' = KillGroup(proc)
    /\ UNCHANGED <<cfg, visiting, ret, cwd, mtime, cache, runs, touched, cur, prev, verrors, env, par, match, frontVars>>

\* case sig := <-sigChan (767-772): SIGINT or SIGTERM arrived; SIGTERM is sent
\* to the group of the child.
SelectSigChan ==
    /\ At("select")
    /\ stack' = SetTop([Top EXCEPT !.pc = "sigwait"])
    /\ proc' = [proc EXCEPT !.child = "terminating", !.group = "terminating"]
    /\ UNCHANGED <<cfg, visiting, ret, cwd, mtime, cache, log, runs, touched, cur, prev, verrors, env, par, match, frontVars>>

\* A runner that does not wait for the child after the signal.
NotAwaited(p) == p

\* Line 774: <-errChan returns when cmdline.Run() has returned.
Awaited(p) == [p EXCEPT !.child = "exited"]

\* Lines 773-776: <-errChan, the child has exited; "command interrupted".
ChildExited ==
    /\ At("sigwait")
    /\ LET command == runCommands[Top.i]
       IN  /\ stack' = SetTop(FailAttempt(Top, <<"command interrupted", command>>))
           /\ log' = Append(log, Ev("res", Depth, command, "interrupted", Top.attempt))
                         \o RetryEvents(Top)
    /\ proc' = Awaited(proc)
    /\ UNCHANGED <<cfg, visiting, ret, cwd, mtime, cache, runs, touched, cur, prev, verrors, env, par, match, frontVars>>

\* executeCommands returned nil: lines 645-648.
AttemptSucceeded ==
    /\ At("body")
    /\ Top.i > Len(runCommands)
    /\ stack' = SetTop([Top EXCEPT !.lastErr = NoErr, !.pc = "post", !.i = 1])
    /\ UNCHANGED <<cfg, visiting, ret, cwd, mtime, cache, proc, log, runs, touched, cur, prev, verrors, env, par, match, frontVars>>

(***************************************************************************)
(* Post-hooks and the end of the call (658-692).                           *)
(***************************************************************************)
\* Post-hooks that run whatever the body did.
PostHooksRunAlways(cmd, f) == Len(cmd.Post) > 0 /\ ~f.IsDependency

\* Post-hooks that run only after a successful body.
PostHooksRunOnSuccess(cmd, f) == Len(cmd.Post) > 0 /\ ~f.IsDependency /\ f.lastErr = NoErr

\* Lines 659-660.
PostHooksRun(cmd, f) ==
    Len(cmd.Post) > 0 /\ ~f.IsDependency /\ (f.lastErr = NoErr \/ cmd.PostAlways)

CallPostHook ==
    /\ At("post")
    /\ PostHooksRun(TopCmd, Top)
    /\ Top.i <= Len(TopCmd.Post)
    /\ Call("post", TopCmd.Post[Top.i], "postRet")
    /\ UNCHANGED <<cfg, visiting, mtime, cache, proc, runs, touched, cur, prev, verrors, env, par, match, frontVars>>

\* A runner for which a failed post-hook is fatal.
PostHookReturnedFatal ==
    /\ At("postRet")
    /\ IF ret # NoErr
       THEN Return(Top, <<"post-hook failed for command", TopCmd.Post[Top.i], Top.task>> \o ret, <<>>)
       ELSE /\ stack' = SetTop([Top EXCEPT !.pc = "post", !.i = Top.i + 1])
            /\ UNCHANGED <<ret, cwd, log>>
    /\ UNCHANGED <<cfg, visiting, mtime, cache, proc, runs, touched, cur, prev, verrors, env, par, match, frontVars>>

\* Lines 668-672: a failed post-hook is a warning.
PostHookReturned ==
    /\ At("postRet")
    /\ stack' = SetTop([Top EXCEPT !.pc = "post", !.i = Top.i + 1])
    /\ log' = IF ret # NoErr
              THEN Append(log, Ev("warn", Depth, TopCmd.Post[Top.i], "", 0))
              ELSE log
    /\ UNCHANGED <<cfg, visiting, ret, cwd, mtime, cache, proc, runs, touched, cur, prev, verrors, env, par, match, frontVars>>

\* A runner that stores the fingerprint in a dry run too.
CacheUpdatedInDryRun(cmd, f) == Len(cmd.IfChanged) > 0

\* Whether the call stores the fingerprint before it returns nil (682).
CacheUpdated(cmd, f) == Len(cmd.IfChanged) > 0 /\ ~f.DryRun

\* Lines 677-692.
Finish ==
    /\ At("post")
    /\ ~PostHooksRun(TopCmd, Top) \/ Top.i > Len(TopCmd.Post)
    /\ IF Top.lastErr # NoErr
       THEN Return(Top, Top.lastErr, <<>>) /\ UNCHANGED cache
       ELSE IF CacheUpdated(TopCmd, Top)
       THEN /\ cache' = updateIfChangedCache(Top.task, TopCmd.IfChanged)
            /\ Return(Top, NoErr, <<Ev("cache", Depth, Top.task, "", 0)>>)
       ELSE Return(Top, NoErr, <<>>) /\ UNCHANGED cache
    /\ UNCHANGED <<cfg, visiting, mtime, proc, runs, touched, cur, prev, verrors, env, par, match, frontVars>>

\* Between two invocations the user modifies a file.
TouchFile ==
    /\ stack = <<>>
    /\ runs > 0
    /\ \E f \in Files \ touched : \E m \in (1..MaxMtime) \ {mtime[f]} :
         /\ mtime' = [mtime EXCEPT ![f] = m]
         /\ touched' = touched \cup {f}
    /\ UNCHANGED <<cfg, stack, visiting, ret, cwd, cache, proc, log, runs, cur, prev, verrors, env, par, match, frontVars>>

(***************************************************************************)
(* Validate (1034-1076) and checkCircularDeps (1078-1097).  The errors     *)
(* are appended in the iteration order of Go maps; they are kept as a set. *)
(***************************************************************************)
RECURSIVE checkCircularDeps(_, _), checkDeps(_, _, _)
checkCircularDeps(name, vis) ==
    IF name \in vis
    THEN [err |-> <<"circular dependency detected involving", name>>, visiting |-> vis]
    ELSE IF name \notin DOMAIN Commands
    THEN [err |-> NoErr, visiting |-> vis]
    ELSE LET r == checkDeps(Commands[name].Dep, 1, vis \cup {name})
         IN  IF r.err # NoErr THEN r
             ELSE [err |-> NoErr, visiting |-> r.visiting \ {name}]

\* The loop of lines 1089-1093 from its i-th dependency on.
checkDeps(deps, i, vis) ==
    IF i > Len(deps) THEN [err |-> NoErr, visiting |-> vis]
    ELSE LET r == checkCircularDeps(deps[i], vis)
         IN  IF r.err # NoErr THEN r ELSE checkDeps(deps, i + 1, r.visiting)

GetCommandOk(name) ==
    name \in DOMAIN Commands
    \/ (name \in DOMAIN aliasMap /\ aliasMap[name] \in DOMAIN Commands)

Validate ==
    UNION {{<<"undefined dependency", n, Commands[n].Dep[j]>> :
               j \in {k \in 1..Len(Commands[n].Dep) :
                         /\ Commands[n].Dep[k] \notin DOMAIN Commands
                         /\ Commands[n].Dep[k] \notin DOMAIN aliasMap}} :
           n \in DOMAIN Commands}
    \cup {checkCircularDeps(name, {}).err :
            name \in {n \in DOMAIN Commands : checkCircularDeps(n, {}).err # NoErr}}
    \cup (IF cfg.Default # "" /\ ~GetCommandOk(cfg.Default)
          THEN {<<"default command is not defined", cfg.Default>>} ELSE {})
    \cup {<<"alias is used by multiple commands", al>> :
            al \in {x \in UNION {Range(Commands[n].Alias) : n \in DOMAIN Commands} :
                      Cardinality({n \in DOMAIN Commands : x \in Range(Commands[n].Alias)}) > 1}}

RunValidate ==
    /\ ~verrors.done
    /\ verrors' = [done |-> TRUE, errors |-> Validate]
    /\ UNCHANGED <<cfg, stack, visiting, ret, cwd, mtime, cache, proc, log, runs, touched,
                   cur, prev, env, par, match, frontVars>>

(***************************************************************************)
(* Configurations.  test (alias t) and lint are plain tasks; build is the  *)
(* task whose options vary.  nope names no task and no alias, biuld is a   *)
(* misspelling within the fuzzy threshold of build.                        *)
(***************************************************************************)
Plain == [test |-> [Cmd(<<"go test">>, <<>>, <<"lint">>, <<"lint">>) EXCEPT !.Alias = <<"t">>],
          lint |-> Cmd(<<"golint">>, <<>>, <<>>, <<>>)]

WithBuild(b) ==
    [Commands |-> [n \in {"build", "test", "lint"} |-> IF n = "build" THEN b ELSE Plain[n]],
     Parallel |-> FALSE, Default |-> "", Env |-> {},
      Variables |-> <<>>]

Bodies == {<<"go build">>, <<"go generate", "go build">>}

\* Hooks and dependencies in every combination, with and without one retry;
\* test with and without a dependency of its own.
HookConfigs ==
    {[WithBuild([Cmd(<<"go build">>, dep, pre, post) EXCEPT !.PostAlways = pa, !.Retry = r])
         EXCEPT !.Commands["test"].Dep = td] :
        <<pre, dep, post, pa, r, td>> \in
            {<<>>, <<"lint">>} \X {<<>>, <<"t", "lint">>, <<"nope", "lint">>}
            \X {<<>>, <<"nope", "lint">>} \X BOOLEAN \X {0, 1} \X {<<>>, <<"lint">>}}

\* Every retry count, bodies of one and two commands.
RetryConfigs ==
    {WithBuild([Cmd(run, <<>>, <<>>, post) EXCEPT !.PostAlways = pa, !.Retry = r]) :
        <<run, post, pa, r>> \in
            Bodies \X {<<>>, <<"test", "lint">>} \X BOOLEAN \X (-1..MaxRetry)}

\* Timed bodies.
TimedConfigs ==
    {WithBuild([Cmd(run, <<>>, <<>>, <<>>) EXCEPT !.Timeout = "1s", !.Retry = r]) :
        <<run, r>> \in Bodies \X {0, 1}}

\* Tasks with a working directory, env tables, duration strings and per-OS run
\* lists: build places the passthrough arguments in its first command; lint,
\* its hook and dependency, names the arguments too and has a directory and an
\* env table of its own.
Modes == {"", "invalid timeout", "invalid retry_delay"}

\* What UnmarshalTOML (61-87) makes of run: a plain list, or a table of lists
\* by OS with an empty default list.
PlatformRuns ==
    {[Default |-> <<"go vet {{args}} .", "go build">>, ByOS |-> {}],
     [Default |-> <<>>, ByOS |-> {}],
     [Default |-> <<>>, ByOS |-> {<<"linux", <<"go vet {{args}} .", "go build">>>>,
                                  <<"darwin", <<"true">>>>}],
     [Default |-> <<>>, ByOS |-> {<<"linux", <<>>>>, <<"darwin", <<"true">>>>}],
     [Default |-> <<>>, ByOS |-> {<<"darwin", <<"true">>>>}]}

FrameConfigs ==
    {[Commands |->
        [n \in {"build", "test", "lint"} |->
            IF n = "build"
            THEN [Cmd(run.Default, dep, pre, post) EXCEPT
                     !.Dir = dir, !.Env = e, !.RunByOS = run.ByOS,
                     !.Timeout = IF mode = "invalid timeout" THEN "soon" ELSE "",
                     !.RetryDelay = IF mode = "invalid retry_delay" THEN "soon" ELSE ""]
            ELSE IF n = "lint"
            THEN [Plain[n] EXCEPT !.Run = <<"golint {{args}}">>, !.Dir = "sub",
                                  !.Env = {<<"LINT_MODE", "1">>}]
            ELSE Plain[n]],
      Parallel |-> FALSE, Default |-> "", Env |-> {<<"GO111MODULE", "on">>},
      Variables |-> <<>>] :
        <<dep, pre, post, dir, e, run, mode>> \in
            {<<>>, <<"lint">>} \X {<<>>, <<"lint">>} \X {<<>>, <<"lint">>}
            \X {"", "sub", "gone"}
            \X {{}, {<<"GO111MODULE", "off">>}}
            \X PlatformRuns
            \X Modes}

EngineConfigs == HookConfigs \cup RetryConfigs \cup TimedConfigs \cup FrameConfigs

\* Change-gated tasks: build with and without a working directory of its own
\* and with a dependency that declares patterns too.
GateConfigs ==
    {[Commands |->
        [n \in {"build", "test", "lint"} |->
            IF n = "build"
            THEN [Cmd(<<"go build">>, dep, <<>>, <<>>) EXCEPT
                     !.IfChanged = <<"*.go">>, !.Dir = dir]
            ELSE IF n = "lint" THEN [Plain[n] EXCEPT !.IfChanged = <<"*.go">>]
            ELSE Plain[n]],
      Parallel |-> FALSE, Default |-> "", Env |-> {},
      Variables |-> <<>>] :
        <<dep, dir>> \in {<<>>, <<"lint">>} \X {"", "sub"}}

\* Dependency graphs: every task lists up to MaxDeps entries, each the name of a
\* task, the alias t of test, or a name nothing defines.
DepEntries == {"build", "test", "lint", "t", "nope"}

RECURSIVE SeqsUpTo(_, _)
SeqsUpTo(S, n) ==
    IF n = 0 THEN {<<>>}
    ELSE SeqsUpTo(S, n - 1) \cup {Append(q, x) : q \in {p \in SeqsUpTo(S, n - 1) : Len(p) = n - 1}, x \in S}

GraphConfigs ==
    {[Commands |->
        [n \in {"build", "test", "lint"} |->
            [Cmd(<<"true">>, deps[n], <<>>, <<>>) EXCEPT
                !.Alias = IF n = "test" THEN <<"t">> ELSE <<>>]],
      Parallel |-> FALSE, Default |-> "", Env |-> {},
      Variables |-> <<>>] :
        deps \in [{"build", "test", "lint"} -> SeqsUpTo(DepEntries, MaxDeps)]}

TopNames == {"build", "biuld"}

\* What follows -- on the command line.
ArgChoices == {<<>>, <<"-v", "./pkg">>}

(***************************************************************************)
(* The command history (1279-1341), kept in .lazy/history.json.  The clock *)
(* of an entry's Timestamp advances by one with every entry; Command is    *)
(* the list of the words of the command string.                            *)
(***************************************************************************)
HistoryCap == 100

NoHistory == [entries |-> <<>>, clock |-> 0, limit |-> 0, got |-> <<>>]

HistoryEntry(command, args, exitCode) ==
    [Command |-> command, Args |-> args, Timestamp |-> history.clock + 1,
     ExitCode |-> exitCode]

\* A history that is never cut.
KeepAll(entries) == entries

\* Lines 1321-1323: only the last 100 entries are kept.
KeepLast(entries) ==
    IF Len(entries) > HistoryCap
    THEN SubSeq(entries, Len(entries) - HistoryCap + 1, Len(entries))
    ELSE entries

\* AddToHistory (1303-1332): what the file holds afterwards.
AddToHistory(entry) ==
    [entries |-> KeepLast(Append(history.entries, entry)), clock |-> entry.Timestamp,
     limit |-> 0, got |-> <<>>]

\* GetHistory (1279-1300).
GetHistory(limit) ==
    IF limit > 0 /\ Len(history.entries) > limit
    THEN SubSeq(history.entries, Len(history.entries) - limit + 1, Len(history.entries))
    ELSE history.entries

\* GetLastCommand (1335-1341): the entry, or none.
GetLastCommand ==
    IF Len(GetHistory(1)) = 0 THEN <<>> ELSE <<GetHistory(1)[1]>>

\* main has not started.
MainIdle == [pc |-> "none", remainingArgs |-> <<>>, command |-> "", commands |-> <<>>,
             exit |-> 0, error |-> NoErr]

\* ReadToml is not under way; no watcher runs.
NoLoad == [pc |-> "none", include |-> <<>>, stack |-> <<>>, visited |-> {}, err |-> NoErr,
           commands |-> <<>>]
NoWatch == [pc |-> "none", now |-> 0, timer |-> 0, due |-> FALSE, events |-> <<>>,
            reruns |-> <<>>, last |-> <<>>, running |-> 0]

\* No function has been called.
NoCall == [fn |-> "", in |-> <<>>, out |-> <<>>]

\* No run in parallel mode is under way.
NoTree == [calls |-> <<>>, maps |-> <<>>]

InitWith(configs, n) ==
    /\ cfg \in configs
    /\ stack = <<>>
    /\ visiting = {}
    /\ ret = NoErr
    /\ cwd = "."
    /\ mtime = [f \in Files |-> 1]
    /\ cache = <<>>
    /\ proc = Idle
    /\ log = <<>>
    /\ runs = n
    /\ touched = {}
    /\ cur = [DryRun |-> FALSE, Force |-> FALSE, touched |-> {}, cache |-> <<>>,
               Args |-> <<>>, env |-> {}, cwd |-> "."]
    /\ env = {}
    /\ par = NoFanOut
    /\ match = NoMatch
    /\ prev = NoRun
    /\ verrors = [done |-> FALSE, errors |-> {}]
    /\ cli = MainIdle
    /\ history = NoHistory
    /\ load = NoLoad
    /\ watch = NoWatch
    /\ call = NoCall
    /\ tree = NoTree

\* A process makes one top-level call (main): every configuration of hooks,
\* dependencies, retries and timeouts is followed over one call.
Init == InitWith(EngineConfigs, 1)

Next ==
    \/ \E name \in TopNames, dryRun \in BOOLEAN, force \in BOOLEAN, args \in ArgChoices :
         RunCommandWithOptions(name, dryRun, force, args)
    \/ Enter
    \/ CallPreHook
    \/ PreHookReturned
    \/ StartDeps
    \/ CallDep
    \/ DepReturned
    \/ PrepareBody
    \/ DryRunCommand
    \/ RunCommand
    \/ SpawnTimed
    \/ Tick
    \/ SelectErrChan
    \/ SelectCtxDone
    \/ SelectSigChan
    \/ ChildExited
    \/ AttemptSucceeded
    \/ CallPostHook
    \/ PostHookReturned
    \/ Finish

Spec == Init /\ [][Next]_vars

\* What outlives a process is the file system with the fingerprint cache: the
\* change-gated configurations are followed over successive invocations, with
\* files modified in between.  They declare no hooks and no timeouts, so the
\* steps of hooks and of timed commands do not occur.
InitGate == InitWith(GateConfigs, MaxGateRuns)

NextGate ==
    \/ \E name \in TopNames, dryRun \in BOOLEAN, force \in BOOLEAN :
         RunCommandWithOptions(name, dryRun, force, <<>>)
    \/ Enter
    \/ StartDeps
    \/ CallDep
    \/ DepReturned
    \/ PrepareBody
    \/ DryRunCommand
    \/ RunCommand
    \/ AttemptSucceeded
    \/ Finish
    \/ TouchFile

SpecGate == InitGate /\ [][NextGate]_vars

\* Validate() on every dependency graph.
InitValidate == InitWith(GraphConfigs, 0)

NextValidate == RunValidate

SpecValidate == InitValidate /\ [][NextValidate]_vars

(***************************************************************************)
(* FuzzyMatch under every enumeration of its two maps.  The range over a   *)
(* Go map visits the keys in an order that differs from one execution to   *)
(* the next: a call of FuzzyMatch draws an order of the command names and  *)
(* an order of the aliases.                                                *)
(***************************************************************************)
Perms(S) ==
    {q \in [1..Cardinality(S) -> S] : \A i, j \in 1..Cardinality(S) : q[i] = q[j] => i = j}

\* What the user may have typed: names of at most five characters and longer
\* ones, at distances one to four from the names and aliases.
FuzzyInputs == {"biuld", "buil", "bl", "tset", "txxx", "dploy", "dexxxy", "dxxxxy", "nope"}

RunFuzzyMatch ==
    /\ ~match.done
    /\ \E name \in FuzzyInputs, cmdKeys \in Perms(DOMAIN Commands),
          aliasKeys \in Perms(DOMAIN aliasMap) :
         match' = [done |-> TRUE, name |-> name, cmdKeys |-> cmdKeys,
                   aliasKeys |-> aliasKeys,
                   result |-> FuzzyMatchIn(name, cmdKeys, aliasKeys)]
    /\ UNCHANGED <<cfg, stack, visiting, ret, cwd, mtime, cache, proc, log, runs, touched,
                   cur, prev, verrors, env, par, frontVars>>

\* Up to MaxTasks of four tasks with close names, each with or without aliases;
\* no alias is declared twice.
MaxTasks == 3

AliasChoices(n) ==
    CASE n = "build"  -> {<<>>, <<"b">>, <<"b", "bld">>}
      [] n = "built"  -> {<<>>, <<"blt">>}
      [] n = "test"   -> {<<>>, <<"t">>}
      [] n = "deploy" -> {<<>>, <<"dep">>}

FuzzyConfigs ==
    {[Commands |-> [n \in T |-> [Cmd(<<"true">>, <<>>, <<>>, <<>>) EXCEPT !.Alias = al[n]]],
      Parallel |-> FALSE, Default |-> "", Env |-> {},
      Variables |-> <<>>] :
        <<T, al>> \in
            {<<T, al>> \in
                (SUBSET {"build", "built", "test", "deploy"})
                \X [{"build", "built", "test", "deploy"} ->
                        {<<>>, <<"b">>, <<"b", "bld">>, <<"blt">>, <<"t">>, <<"dep">>}] :
                /\ T # {}
                /\ Cardinality(T) <= MaxTasks
                /\ \A n \in {"build", "built", "test", "deploy"} :
                      IF n \in T THEN al[n] \in AliasChoices(n) ELSE al[n] = <<>>}}

InitFuzzy == InitWith(FuzzyConfigs, 0)

NextFuzzy == RunFuzzyMatch

SpecFuzzy == InitFuzzy /\ [][NextFuzzy]_vars

(***************************************************************************)
(* Parallel fan-out: runDepsParallel (866-904) and runCommandsParallel     *)
(* (1376-1399).  One goroutine per item runs the item's task; the caller   *)
(* waits for all of them and then reads the buffered error channel.  The   *)
(* tasks of the branches have no hooks and no dependencies: a branch looks *)
(* its task up and runs the body commands in order, and any of them may    *)
(* fail.  par.branch[k] is the goroutine of item k: go (spawned), body,    *)
(* ret (the task's call has returned), done (wg.Done); err is the error of *)
(* its task's call, and late records that it started a body command after  *)
(* the call of another branch had failed.                                  *)
(***************************************************************************)
Branches == 1..Len(par.branch)

OtherFailed(k) == \E a \in Branches \ {k} : par.branch[a].err # NoErr

FanOut(kind, items) ==
    /\ par = NoFanOut
    /\ Len(items) > 0
    /\ par' = [kind |-> kind, items |-> items,
               branch |-> [k \in 1..Len(items) |->
                              [pc |-> "go", task |-> "", i |-> 1, err |-> NoErr,
                               late |-> FALSE]],
               errChan |-> <<>>, joined |-> FALSE, result |-> NoErr]
    /\ UNCHANGED <<cfg, stack, visiting, ret, cwd, mtime, cache, proc, log, runs, touched,
                   cur, prev, verrors, env, match, frontVars>>

\* Lines 870-893: the goroutines of the dependencies of a task.
runDepsParallel(deps) == FanOut("deps", deps)

\* Lines 1380-1388: the goroutines of the commands named on the command line.
runCommandsParallel(commands) == FanOut("commands", commands)

SetBranch(k, b) ==
    /\ par' = [par EXCEPT !.branch[k] = b]
    /\ UNCHANGED <<cfg, stack, visiting, ret, cwd, mtime, cache, proc, log, runs, touched,
                   cur, prev, verrors, env, match, frontVars>>

\* The lookup of runCommandWithVisited (452-483) in the goroutine of item k.
BranchEnter(k) ==
    /\ k \in Branches
    /\ par.branch[k].pc = "go"
    /\ LET b == par.branch[k]
           name == par.items[k]
           resolvedName == ResolveCommandName(name)
           found == IF resolvedName \in DOMAIN Commands THEN resolvedName
                    ELSE FuzzyMatch(name)
       IN  IF found = ""
           THEN SetBranch(k, [b EXCEPT !.pc = "ret", !.err = <<"command not found", name>>])
           ELSE IF NoRunCommands(Commands[found])
           THEN SetBranch(k, [b EXCEPT !.pc = "ret", !.task = found,
                                       !.err = <<"no run commands defined", found>>])
           ELSE SetBranch(k, [b EXCEPT !.pc = "body", !.task = found])

\* executeCommands (696-789) in the goroutine of item k: the next body command
\* runs and succeeds or fails.
BranchCommand(k) ==
    /\ k \in Branches
    /\ par.branch[k].pc = "body"
    /\ LET b == par.branch[k]
           run == GetForCurrentPlatform(Commands[b.task])
       IN  /\ b.i <= Len(run)
           /\ \E ok \in BOOLEAN :
                IF ok
                THEN SetBranch(k, [b EXCEPT !.i = b.i + 1,
                                            !.late = @ \/ OtherFailed(k)])
                ELSE SetBranch(k, [b EXCEPT !.pc = "ret",
                                            !.late = @ \/ OtherFailed(k),
                                            !.err = <<"command failed", run[b.i]>>])

\* Lines 889-891 and 1383-1386 with the deferred wg.Done(): the error of the
\* task's call, wrapped, is sent to the buffered channel.
Wrapped(kind, item, err) ==
    IF kind = "deps" THEN <<"dependency '%s' failed", item>> \o err
    ELSE <<"command '%s' failed", item>> \o err

BranchReturn(k) ==
    /\ k \in Branches
    /\ LET b == par.branch[k]
       IN  /\ \/ b.pc = "ret"
              \/ b.pc = "body" /\ b.i > Len(GetForCurrentPlatform(Commands[b.task]))
           /\ par' = [par EXCEPT
                        !.branch[k] = [b EXCEPT !.pc = "done"],
                        !.errChan = IF b.err # NoErr
                                    THEN Append(@, Wrapped(par.kind, par.items[k], b.err))
                                    ELSE @]
    /\ UNCHANGED <<cfg, stack, visiting, ret, cwd, mtime, cache, proc, log, runs, touched,
                   cur, prev, verrors, env, match, frontVars>>

\* A fan-out that returns as soon as one branch has reported an error.
WaitReturnsOnFirstError ==
    \/ par.errChan # <<>>
    \/ \A k \in Branches : par.branch[k].pc = "done"

\* wg.Wait() (896, 1391) returns.
WaitReturns == \A k \in Branches : par.branch[k].pc = "done"

\* Lines 896-903 and 1391-1398: after the wait the channel is closed and the
\* first error in it, if any, is returned.
Wait ==
    /\ par.kind # ""
    /\ ~par.joined
    /\ WaitReturns
    /\ par' = [par EXCEPT !.joined = TRUE,
                          !.result = IF par.errChan = <<>> THEN NoErr
                                     ELSE Head(par.errChan)]
    /\ UNCHANGED <<cfg, stack, visiting, ret, cwd, mtime, cache, proc, log, runs, touched,
                   cur, prev, verrors, env, match, frontVars>>

\* The tasks the branches run, and the lists of items: two or more distinct
\* names, among them an alias and a name nothing defines.
ParallelConfigs ==
    {[Commands |->
        [n \in {"build", "test", "lint"} |->
            IF n = "build" THEN Cmd(run, <<>>, <<>>, <<>>)
            ELSE [Plain[n] EXCEPT !.Pre = <<>>, !.Post = <<>>]],
      Parallel |-> TRUE, Default |-> "", Env |-> {},
      Variables |-> <<>>] : run \in Bodies}

MaxItems == 3

ItemLists ==
    {q \in SeqsUpTo({"build", "t", "lint", "nope"}, MaxItems) :
        Len(q) >= 2 /\ Cardinality(Range(q)) = Len(q)}

InitParallel == InitWith(ParallelConfigs, 0)

NextParallel ==
    \/ \E deps \in ItemLists : runDepsParallel(deps)
    \/ \E commands \in ItemLists : runCommandsParallel(commands)
    \/ \E k \in 1..MaxItems : BranchEnter(k)
    \/ \E k \in 1..MaxItems : BranchCommand(k)
    \/ \E k \in 1..MaxItems : BranchReturn(k)
    \/ Wait

SpecParallel == InitParallel /\ [][NextParallel]_vars

(***************************************************************************)
(* MatchWildcard (1235-1258) and the part of main that expands the         *)
(* command-line arguments and runs what they name.  Strings are compared   *)
(* byte by byte: Byte is the code of a character.                          *)
(***************************************************************************)
Byte(c) ==
    CASE c = "*" -> 42
      [] c = "2" -> 50
      [] c = ":" -> 58
      [] c = "a" -> 97
      [] c = "b" -> 98
      [] c = "d" -> 100
      [] c = "e" -> 101
      [] c = "g" -> 103
      [] c = "i" -> 105
      [] c = "l" -> 108
      [] c = "n" -> 110
      [] c = "o" -> 111
      [] c = "p" -> 112
      [] c = "r" -> 114
      [] c = "s" -> 115
      [] c = "t" -> 116
      [] c = "u" -> 117
      [] c = "v" -> 118
      [] c = "x" -> 120
      [] c = "y" -> 121

HasPrefix(s, prefix) ==
    Len(prefix) <= Len(s) /\ SubSeq(s, 1, Len(prefix)) = prefix

HasSuffix(s, suffix) ==
    Len(suffix) <= Len(s) /\ SubSeq(s, Len(s) - Len(suffix) + 1, Len(s)) = suffix

TrimSuffix(s, suffix) ==
    IF HasSuffix(s, suffix) THEN SubSeq(s, 1, Len(s) - Len(suffix)) ELSE s

Contains(s, c) == \E k \in 1..Len(s) : s[k] = c

\* filepath.Match for patterns made of literal characters and stars: a star
\* matches any run of characters other than the path separator.
RECURSIVE filepathMatch(_, _)
filepathMatch(pattern, name) ==
    IF pattern = <<>> THEN name = <<>>
    ELSE IF Head(pattern) = "*"
    THEN \E k \in 0..Len(name) :
            /\ ~Contains(SubSeq(name, 1, k), "/")
            /\ filepathMatch(Tail(pattern), SubSeq(name, k + 1, Len(name)))
    ELSE /\ name # <<>>
         /\ Head(name) = Head(pattern)
         /\ filepathMatch(Tail(pattern), Tail(name))

\* The order of Go strings: the first differing byte decides, a proper prefix
\* comes first.
RECURSIVE StringLess(_, _)
StringLess(a, b) ==
    IF b = <<>> THEN FALSE
    ELSE IF a = <<>> THEN TRUE
    ELSE IF Head(a) # Head(b) THEN Byte(Head(a)) < Byte(Head(b))
    ELSE StringLess(Tail(a), Tail(b))

\* A list left in the order in which the map was visited.
Unsorted(names) == names

\* sort.Strings (1256).
RECURSIVE SortStrings(_)
SortStrings(names) ==
    IF names = <<>> THEN <<>>
    ELSE LET least == CHOOSE k \in 1..Len(names) :
                          \A j \in 1..Len(names) :
                              j = k \/ ~StringLess(Chars(names[j]), Chars(names[k]))
             rest == [j \in 1..(Len(names) - 1) |->
                          IF j < least THEN names[j] ELSE names[j + 1]]
         IN  <<names[least]>> \o SortStrings(rest)

\* Whether a task name is collected (1241, 1247).
WildcardMatches(pattern, name) ==
    IF HasSuffix(Chars(pattern), <<":", "*">>)
    THEN HasPrefix(Chars(name), TrimSuffix(Chars(pattern), <<"*">>))
    ELSE Contains(Chars(pattern), "*") /\ filepathMatch(Chars(pattern), Chars(name))

\* MatchWildcard with its loop visiting the task names in the order given.
MatchWildcardIn(pattern, keys) ==
    LET Hit(name) == WildcardMatches(pattern, name)
    IN  SortStrings(SelectSeq(keys, Hit))

MatchWildcard(pattern) == MatchWildcardIn(pattern, SetToSeq(DOMAIN Commands))

(***************************************************************************)
(* main, from the expansion of wildcard arguments to the exit (part_004    *)
(* 171-308), for an invocation that names tasks or patterns: no flags, no  *)
(* built-in command, sequential mode.                                      *)
(***************************************************************************)
\* Lines 241-254: every argument with a star is replaced by its matches; the
\* first pattern without a match ends the process.  orders[k] is the order in
\* which MatchWildcard visits the task names for argument k.
ExpandWildcards(remainingArgs, orders) ==
    LET R[k \in 0..Len(remainingArgs)] ==
            IF k = 0 THEN [commands |-> <<>>, unmatched |-> ""]
            ELSE LET r == R[k - 1]
                     arg == remainingArgs[k]
                 IN  IF r.unmatched # "" THEN r
                     ELSE IF Contains(Chars(arg), "*")
                     THEN LET matches == MatchWildcardIn(arg, orders[k])
                          IN  IF Len(matches) = 0 THEN [r EXCEPT !.unmatched = arg]
                              ELSE [r EXCEPT !.commands = @ \o matches]
                     ELSE [r EXCEPT !.commands = Append(@, arg)]
    IN  R[Len(remainingArgs)]

\* Lines 171-254.
main(remainingArgs, orders) ==
    /\ cli.pc = "none"
    /\ LET command == remainingArgs[1]
           r == ExpandWildcards(remainingArgs, orders)
       IN  IF r.unmatched # ""
           THEN /\ cli' = [pc |-> "exit", remainingArgs |-> remainingArgs,
                           command |-> command, commands |-> r.commands, exit |-> 1,
                           error |-> <<"No commands matching pattern", r.unmatched>>]
                /\ runs' = 0
           ELSE /\ cli' = [pc |-> "run", remainingArgs |-> remainingArgs,
                           command |-> command, commands |-> r.commands, exit |-> 0,
                           error |-> NoErr]
                /\ runs' = IF Len(r.commands) > 1 THEN Len(r.commands) ELSE 1
    /\ UNCHANGED <<cfg, stack, visiting, ret, cwd, mtime, cache, proc, log, touched,
                   cur, prev, verrors, env, par, match, history, load, watch, call, tree>>

\* The name main hands to the engine next: the next of the commands when
\* there are several (RunMultipleCommands, 1367-1371), else command (288).
NextCommand ==
    IF Len(cli.commands) > 1
    THEN cli.commands[Len(cli.commands) - runs + 1]
    ELSE cli.command

\* Lines 268 and 288: the calls of RunCommandWithOptions; the loop of
\* RunMultipleCommands goes on while the calls return nil.
mainRun ==
    /\ cli.pc = "run"
    /\ ret = NoErr
    /\ RunCommandWithOptions(NextCommand, FALSE, FALSE, <<>>)

\* Lines 268-308: the run is recorded in the history and the process exits.
mainExit ==
    /\ cli.pc = "run"
    /\ stack = <<>>
    /\ runs = 0 \/ ret # NoErr
    /\ history' = AddToHistory(HistoryEntry(
                      IF Len(cli.commands) > 1 THEN cli.commands ELSE <<cli.command>>,
                      <<>>, IF ret = NoErr THEN 0 ELSE 1))
    /\ cli' = [cli EXCEPT !.pc = "exit", !.exit = IF ret = NoErr THEN 0 ELSE 1,
                          !.error = ret]
    /\ UNCHANGED <<cfg, stack, visiting, ret, cwd, mtime, cache, proc, log, runs, touched,
                   cur, prev, verrors, env, par, match, load, watch, call, tree>>

\* What is typed: patterns with one, several and no matches, alone and
\* beside a task name.
MainArgs ==
    {<<"test:*">>, <<"build:*">>, <<"lint:*">>, <<"*:unit">>, <<"*">>, <<"test:unit">>,
     <<"nope">>, <<"build:dev", "test:*">>, <<"test:*", "build:dev">>,
     <<"test:unit", "lint:*">>, <<"test:*", "build:*">>}

\* Configurations of up to MaxNamespaced tasks without hooks and dependencies.
MaxNamespaced == 3

NamespacedTasks == {"test:unit", "test:integration", "test:e2e", "build:dev", "test"}

MainConfigs ==
    {[Commands |-> [n \in T |-> Cmd(<<"go test">>, <<>>, <<>>, <<>>)],
      Parallel |-> FALSE, Default |-> "", Env |-> {},
      Variables |-> <<>>] :
        T \in {T \in SUBSET NamespacedTasks : T # {} /\ Cardinality(T) <= MaxNamespaced}}

InitMain == InitWith(MainConfigs, 0)

NextMain ==
    \/ \E remainingArgs \in MainArgs :
         \E orders \in [1..Len(remainingArgs) -> Perms(DOMAIN Commands)] :
             main(remainingArgs, orders)
    \/ mainRun
    \/ Enter
    \/ StartDeps
    \/ PrepareBody
    \/ RunCommand
    \/ AttemptSucceeded
    \/ Finish
    \/ mainExit

SpecMain == InitMain /\ [][NextMain]_vars

(***************************************************************************)
(* The history over many invocations: every invocation that runs a task    *)
(* adds one entry; the history is read by GetHistory and GetLastCommand.   *)
(***************************************************************************)
MaxAdds == 102

HistoryLimits == {0, 1, 3, HistoryCap}

AddEntry ==
    /\ history.clock < MaxAdds
    /\ history' = AddToHistory(HistoryEntry(<<"build">>, <<>>, 0))
    /\ UNCHANGED <<cfg, stack, visiting, ret, cwd, mtime, cache, proc, log, runs, touched,
                   cur, prev, verrors, env, par, match, cli, load, watch, call, tree>>

ReadHistory(limit) ==
    /\ history' = [history EXCEPT !.limit = limit, !.got = GetHistory(limit)]
    /\ UNCHANGED <<cfg, stack, visiting, ret, cwd, mtime, cache, proc, log, runs, touched,
                   cur, prev, verrors, env, par, match, cli, load, watch, call, tree>>

ReadLastCommand ==
    /\ history' = [history EXCEPT !.limit = 1, !.got = GetLastCommand]
    /\ UNCHANGED <<cfg, stack, visiting, ret, cwd, mtime, cache, proc, log, runs, touched,
                   cur, prev, verrors, env, par, match, cli, load, watch, call, tree>>

InitHistory == InitWith({WithBuild(Cmd(<<"go build">>, <<>>, <<>>, <<>>))}, 0)

NextHistory ==
    \/ AddEntry
    \/ \E limit \in HistoryLimits : ReadHistory(limit)
    \/ ReadLastCommand

SpecHistory == InitHistory /\ [][NextHistory]_vars

(***************************************************************************)
(* ResolveCommandName on what it returned.  The alias map is the one       *)
(* buildAliasMap made when the configuration was loaded; a task may declare *)
(* the name of another task as an alias, and two tasks the same alias.     *)
(***************************************************************************)
ResolveInputs == {"build", "test", "lint", "b", "t", "nope"}

RunResolve(name, order) ==
    /\ call.fn = ""
    /\ LET aliases == buildAliasMapIn(Commands, order)
           once == ResolveCommandNameIn(name, Commands, aliases)
           twice == ResolveCommandNameIn(once, Commands, aliases)
       IN  call' = [fn |-> "ResolveCommandName", in |-> <<name, aliases>>,
                    out |-> <<once, twice>>]
    /\ UNCHANGED <<cfg, stack, visiting, ret, cwd, mtime, cache, proc, log, runs, touched,
                   cur, prev, verrors, env, par, match, cli, history, load, watch, tree>>

ResolveAliases == {<<>>, <<"b">>, <<"t">>, <<"b", "t">>, <<"build">>, <<"test", "b">>}

ResolveConfigs ==
    {[Commands |-> [n \in T |-> [Cmd(<<"true">>, <<>>, <<>>, <<>>) EXCEPT !.Alias = al[n]]],
      Parallel |-> FALSE, Default |-> "", Env |-> {},
      Variables |-> <<>>] :
        <<T, al>> \in
            {<<T, al>> \in (SUBSET {"build", "test", "lint"})
                            \X [{"build", "test", "lint"} -> ResolveAliases] :
                /\ T # {}
                /\ \A n \in {"build", "test", "lint"} : n \notin T => al[n] = <<>>}}

InitResolve == InitWith(ResolveConfigs, 0)

NextResolve ==
    \E name \in ResolveInputs, order \in Perms(DOMAIN Commands) : RunResolve(name, order)

SpecResolve == InitResolve /\ [][NextResolve]_vars

(***************************************************************************)
(* interpolateVariables on every input.  A string is the list of its       *)
(* pieces: a piece is a match of the pattern {{\w+}} or the text between   *)
(* two matches, which may hold braces that the pattern does not match.     *)
(***************************************************************************)
MaxPieces == 2

Pieces == {"go", "{{name}}", "{{version}}", "{{os}}", "{{args}}", "{{undefined}}",
           "{{a-b}}", "{{ name }}"}

InterpolateInputs == UNION {[1..n -> Pieces] : n \in 0..MaxPieces}

ExtraVarChoices == {<<>>, [args |-> <<"-v", "./pkg">>], [args |-> <<"{{name}}">>]}

VariableTables ==
    {<<>>,
     [name |-> <<"myapp">>],
     [name |-> <<"app-", "{{version}}">>, version |-> <<"1.0.0">>],
     [name |-> <<"{{name}}">>, os |-> <<"plan9">>],
     [args |-> <<"{{undefined}}">>, version |-> <<"{{os}}">>]}

RunInterpolate(input, extraVars) ==
    /\ call.fn = ""
    /\ call' = [fn |-> "interpolateVariables", in |-> <<input, extraVars>>,
                out |-> interpolateVariables(input, extraVars)]
    /\ UNCHANGED <<cfg, stack, visiting, ret, cwd, mtime, cache, proc, log, runs, touched,
                   cur, prev, verrors, env, par, match, cli, history, load, watch, tree>>

InterpolateConfigs ==
    {[WithBuild(Cmd(<<"go build">>, <<>>, <<>>, <<>>)) EXCEPT !.Variables = v] :
        v \in VariableTables}

InitInterpolate == InitWith(InterpolateConfigs, 0)

NextInterpolate ==
    \E input \in InterpolateInputs, extraVars \in ExtraVarChoices :
        RunInterpolate(input, extraVars)

SpecInterpolate == InitInterpolate /\ [][NextInterpolate]_vars

(***************************************************************************)
(* ReadToml and readTomlFromPath (171-267) over the files of a project:    *)
(* lazy.toml, the root, and two files it may include.  include is what the *)
(* include patterns of every file match, in order (a file matched by two   *)
(* patterns of a list is in it twice); load.stack holds the calls of       *)
(* readTomlFromPath, load.visited the map they share.  A file defines the  *)
(* tasks of OwnCommands, told apart by the file they were read from.       *)
(***************************************************************************)
MaxIncludes == 2

RootFile == "lazy.toml"

TomlFiles == {"lazy.toml", "a.toml", "b.toml"}

IncludeLists == UNION {[1..n -> TomlFiles] : n \in 0..MaxIncludes}

OwnCommands(file) ==
    CASE file = "lazy.toml" -> [build |-> file]
      [] file = "a.toml"    -> [build |-> file, test |-> file]
      [] file = "b.toml"    -> [test |-> file, lint |-> file]

\* Lines 241-246: the commands of an included file do not replace existing ones.
MergeCommands(existing, included) ==
    [n \in DOMAIN existing \cup DOMAIN included |->
        IF n \in DOMAIN existing THEN existing[n] ELSE included[n]]

LoadTop == load.stack[Len(load.stack)]

\* ReadToml (171-178) and the entry of readTomlFromPath for the root file.
ReadToml(include) ==
    /\ load.pc = "none"
    /\ load' = [pc |-> "run", include |-> include,
                stack |-> <<[file |-> RootFile, i |-> 1, commands |-> OwnCommands(RootFile)]>>,
                visited |-> {RootFile}, err |-> NoErr, commands |-> <<>>]
    /\ UNCHANGED <<cfg, stack, visiting, ret, cwd, mtime, cache, proc, log, runs, touched,
                   cur, prev, verrors, env, par, match, cli, history, watch, call, tree>>

\* Line 186: visited[absPath].
Visited(file) == file \in load.visited

\* Lines 236-239 with 181-189: the call of readTomlFromPath for the next
\* match.  A file that is in the map ends the whole load: every caller
\* wraps the error and returns it.
IncludeFile ==
    /\ load.pc = "run"
    /\ LoadTop.i <= Len(load.include[LoadTop.file])
    /\ LET file == load.include[LoadTop.file][LoadTop.i]
       IN  IF Visited(file)
           THEN load' = [load EXCEPT !.pc = "done", !.stack = <<>>,
                                     !.err = <<"circular include detected", file>>]
           ELSE load' = [load EXCEPT
                           !.stack = Append(@, [file |-> file, i |-> 1,
                                                commands |-> OwnCommands(file)]),
                           !.visited = @ \cup {file}]
    /\ UNCHANGED <<cfg, stack, visiting, ret, cwd, mtime, cache, proc, log, runs, touched,
                   cur, prev, verrors, env, par, match, cli, history, watch, call, tree>>

\* Lines 241-266: a call has gone through its includes and returns its
\* configuration, which the caller merges into its own.
IncludeReturned ==
    /\ load.pc = "run"
    /\ LoadTop.i > Len(load.include[LoadTop.file])
    /\ LET depth == Len(load.stack)
       IN  IF depth = 1
           THEN load' = [load EXCEPT !.pc = "done", !.stack = <<>>,
                                     !.commands = LoadTop.commands]
           ELSE load' = [load EXCEPT
                           !.stack = [SubSeq(@, 1, depth - 1) EXCEPT
                                        ![depth - 1].i = @ + 1,
                                        ![depth - 1].commands =
                                            MergeCommands(@, LoadTop.commands)]]
    /\ UNCHANGED <<cfg, stack, visiting, ret, cwd, mtime, cache, proc, log, runs, touched,
                   cur, prev, verrors, env, par, match, cli, history, watch, call, tree>>

InitLoad == InitWith({WithBuild(Cmd(<<"go build">>, <<>>, <<>>, <<>>))}, 0)

NextLoad ==
    \/ \E include \in [TomlFiles -> IncludeLists] : ReadToml(include)
    \/ IncludeFile
    \/ IncludeReturned

SpecLoad == InitLoad /\ [][NextLoad]_vars

(***************************************************************************)
(* The watcher (watcher/watcher.go 100-145) in watch mode.  Time is        *)
(* counted in ticks of 100 ms, so the debounce time of 300 ms that         *)
(* runWatchMode passes is three ticks.  watch.timer is the time left on    *)
(* the timer of time.AfterFunc (0 when none runs) and watch.due says that  *)
(* it has run out and its function has not started yet: until then         *)
(* timer.Stop() still stops it.  watch.events holds the times of the       *)
(* events that matched, watch.reruns the times at which the callback, a    *)
(* top-level run of the command, was started, and watch.running the       *)
(* number of calls of the callback that have not returned: the function   *)
(* of a timer runs in a goroutine of its own.                             *)
(***************************************************************************)
DebounceMs == 300
TickMs == 100
DebounceTicks == DebounceMs \div TickMs
MaxEvents == 4
MaxTime == 12

Ops == {"write", "create", "remove", "chmod"}

\* go w.watch() (95).
StartWatch ==
    /\ watch.pc = "none"
    /\ watch' = [watch EXCEPT !.pc = "watching"]
    /\ UNCHANGED <<cfg, stack, visiting, ret, cwd, mtime, cache, proc, log, runs, touched,
                   cur, prev, verrors, env, par, match, cli, history, load, call, tree>>

\* A timer that is left to run when one is running.
KeepTimer(timer) == IF timer > 0 THEN timer ELSE DebounceTicks

\* Lines 122-126: the running timer is stopped and a new one started.
ResetTimer(timer) == DebounceTicks

\* Lines 106-133: an event of the file system is received.
FileEvent(op, matchesPattern) ==
    /\ watch.pc = "watching"
    /\ Len(watch.events) < MaxEvents
    /\ IF op \in {"write", "create"} /\ matchesPattern
       THEN watch' = [watch EXCEPT !.timer = ResetTimer(@),
                                   !.due = FALSE,
                                   !.events = Append(@, watch.now),
                                   !.last = <<op, matchesPattern>>]
       ELSE watch' = [watch EXCEPT !.last = <<op, matchesPattern>>]
    /\ UNCHANGED <<cfg, stack, visiting, ret, cwd, mtime, cache, proc, log, runs, touched,
                   cur, prev, verrors, env, par, match, cli, history, load, call, tree>>

\* A tick of the clock; the clock stands while a timer that has run out
\* waits for its function to start.
WatchTick ==
    /\ watch.pc = "watching"
    /\ ~watch.due
    /\ watch.now < MaxTime
    /\ watch' = [watch EXCEPT !.now = @ + 1,
                              !.timer = IF @ > 0 THEN @ - 1 ELSE 0,
                              !.due = (watch.timer = 1)]
    /\ UNCHANGED <<cfg, stack, visiting, ret, cwd, mtime, cache, proc, log, runs, touched,
                   cur, prev, verrors, env, par, match, cli, history, load, call, tree>>

\* Lines 126-132: the function of the timer starts and calls the callback.
TimerFires ==
    /\ watch.pc = "watching"
    /\ watch.due
    /\ watch' = [watch EXCEPT !.due = FALSE, !.reruns = Append(@, watch.now),
                              !.running = @ + 1]
    /\ UNCHANGED <<cfg, stack, visiting, ret, cwd, mtime, cache, proc, log, runs, touched,
                   cur, prev, verrors, env, par, match, cli, history, load, call, tree>>

\* Lines 129-131: a call of the callback, a run of the command, returns.
CallbackReturns ==
    /\ watch.pc = "watching"
    /\ watch.running > 0
    /\ watch' = [watch EXCEPT !.running = @ - 1]
    /\ UNCHANGED <<cfg, stack, visiting, ret, cwd, mtime, cache, proc, log, runs, touched,
                   cur, prev, verrors, env, par, match, cli, history, load, call, tree>>

InitWatch == InitWith({WithBuild(Cmd(<<"go build">>, <<>>, <<>>, <<>>))}, 0)

NextWatch ==
    \/ StartWatch
    \/ \E op \in Ops, matchesPattern \in BOOLEAN : FileEvent(op, matchesPattern)
    \/ WatchTick
    \/ TimerFires
    \/ CallbackReturns

SpecWatch == InitWatch /\ [][NextWatch]_vars

(***************************************************************************)
(* Misspelt entries.  The dep, pre and post lists of build name test, its  *)
(* misspelling tset (within the fuzzy threshold of test) or nope (within   *)
(* the threshold of no name).                                              *)
(***************************************************************************)
EntryLists == {<<>>, <<"test">>, <<"tset">>, <<"nope">>}

TypoConfigs ==
    {WithBuild(Cmd(<<"go build">>, dep, pre, post)) :
        <<dep, pre, post>> \in EntryLists \X EntryLists \X EntryLists}

InitTypo == InitWith(TypoConfigs, 1)

NextTypo ==
    \/ \E name \in TopNames : RunCommandWithOptions(name, FALSE, FALSE, <<>>)
    \/ Enter
    \/ CallPreHook
    \/ PreHookReturned
    \/ StartDeps
    \/ CallDep
    \/ DepReturned
    \/ PrepareBody
    \/ RunCommand
    \/ AttemptSucceeded
    \/ CallPostHook
    \/ PostHookReturned
    \/ Finish

SpecTypo == InitTypo /\ [][NextTypo]_vars

(***************************************************************************)
(* References that form cycles.  The dep lists of build, test (alias t)    *)
(* and lint and the pre and post lists of build name the task itself, each *)
(* other, the alias, and nope, which nothing defines; post_always is set,  *)
(* so the post-hooks run after a failed body too.  The configuration is    *)
(* first validated (imlazy validate), then a name is run.                  *)
(***************************************************************************)
CycleDeps ==
    [build |-> {<<>>, <<"build">>, <<"t">>, <<"lint">>, <<"t", "lint">>},
     test  |-> {<<>>, <<"build">>, <<"lint">>},
     lint  |-> {<<>>, <<"build">>, <<"test">>, <<"nope">>}]

CycleHooks ==
    [Pre  |-> {<<>>, <<"build">>, <<"test">>, <<"nope">>},
     Post |-> {<<>>, <<"build">>, <<"lint", "lint">>, <<"lint", "test">>}]

CycleConfigs ==
    {[Commands |->
        [n \in {"build", "test", "lint"} |->
            IF n = "build"
            THEN [Cmd(<<"go build">>, db, pre, post) EXCEPT !.PostAlways = TRUE]
            ELSE [Cmd(Plain[n].Run, IF n = "test" THEN dt ELSE dl, <<>>, <<>>)
                     EXCEPT !.Alias = Plain[n].Alias]],
      Parallel |-> FALSE, Default |-> "", Env |-> {},
      Variables |-> <<>>] :
        <<db, dt, dl, pre, post>> \in
            CycleDeps.build \X CycleDeps.test \X CycleDeps.lint
            \X CycleHooks.Pre \X CycleHooks.Post}

\* What is typed: a task, an alias, a misspelling of build, an unknown name.
CycleNames == {"build", "t", "lint", "biuld", "nope"}

InitCycle == InitWith(CycleConfigs, 1)

NextCycle ==
    \/ stack = <<>> /\ log = <<>> /\ RunValidate
    \/ verrors.done /\ \E name \in CycleNames : RunCommandWithOptions(name, FALSE, FALSE, <<>>)
    \/ Enter
    \/ CallPreHook
    \/ PreHookReturned
    \/ StartDeps
    \/ CallDep
    \/ DepReturned
    \/ PrepareBody
    \/ RunCommand
    \/ AttemptSucceeded
    \/ CallPostHook
    \/ PostHookReturned
    \/ Finish

SpecCycle == InitCycle /\ [][NextCycle]_vars

(***************************************************************************)
(* Parallel mode with dependencies of dependencies.  With                  *)
(* Settings.Parallel every dependency runs in a goroutine of its own       *)
(* (runDepsParallel, 866-904) and the task waits for all of them, so a run *)
(* is a tree of calls of runCommandWithVisited.  tree.calls[k] is call k:  *)
(* item is the dependency entry it was started for, name the name it       *)
(* looks up, parent its caller (0 for the call of the command line), kids  *)
(* the calls of its dependencies, errChan the channel of its fan-out, map  *)
(* the visiting map it was passed, ranIn the working directory of the      *)
(* process at the start of each of its body commands.  tree.maps holds the *)
(* visiting maps, as the sets of the names mapped to true.  The working    *)
(* directory and the environment belong to the process: all goroutines     *)
(* read and write the same ones.  The tasks have no hooks, no retries and  *)
(* no timeouts.                                                            *)
(***************************************************************************)
Node(item, parent) ==
    [item |-> item, name |-> item, task |-> "", parent |-> parent, map |-> 0,
     pc |-> "go", kids |-> <<>>, errChan |-> <<>>, err |-> NoErr, i |-> 1,
     chdir |-> FALSE, originalDir |-> "", ranIn |-> <<>>]

\* Everything but the tree, the working directory and the environment.
processVars == <<cfg, stack, visiting, ret, mtime, cache, proc, log, runs, touched, cur,
                 prev, verrors, par, match, cli, history, load, watch, call>>

\* RunCommandWithOptions (447-449) in parallel mode: a fresh, empty map.
RunInParallel(name) ==
    /\ tree = NoTree
    /\ cfg.Parallel
    /\ tree' = [calls |-> <<[Node(name, 0) EXCEPT !.pc = "entry", !.map = 1]>>,
                maps |-> <<{}>>]
    /\ UNCHANGED <<processVars, cwd, env>>

\* A goroutine that is handed the map of its caller.
SharedVisiting(callerMap, k) == callerMap

\* Lines 877-880: visitingCopy, the map of goroutine k.
visitingCopy(callerMap, k) == k

SetCall(k, n) == [tree.calls EXCEPT ![k] = n]

\* The maps after map m was written.
SetMap(m, vis) ==
    [id \in DOMAIN tree.maps \cup {m} |-> IF id = m THEN vis ELSE tree.maps[id]]

\* Lines 877-889 and 452-531 in goroutine k: the copy of the caller's map
\* (when the goroutine starts), the cycle check, the lookup with the fuzzy
\* fallback, the empty body, the mark and the goroutines of the dependencies.
GoEnter(k) ==
    /\ k \in 1..Len(tree.calls)
    /\ tree.calls[k].pc \in {"go", "entry"}
    /\ LET n == tree.calls[k]
           started == n.pc = "go"
           m == IF started THEN visitingCopy(tree.calls[n.parent].map, k) ELSE n.map
           vis == IF started THEN tree.maps[tree.calls[n.parent].map] ELSE tree.maps[n.map]
           resolvedName == ResolveCommandName(n.name)
           c == [n EXCEPT !.map = m, !.task = resolvedName]
           depCommands == Commands[resolvedName].Dep
       IN  IF resolvedName \in vis
           THEN tree' = [calls |-> SetCall(k, [c EXCEPT !.pc = "ret",
                                     !.err = <<"circular dependency detected", resolvedName>>]),
                         maps |-> SetMap(m, vis)]
           ELSE IF resolvedName \notin DOMAIN Commands
           THEN IF FuzzyMatch(n.name) # ""
                THEN tree' = [calls |-> SetCall(k, [c EXCEPT !.pc = "entry", !.task = "",
                                                             !.name = FuzzyMatch(n.name)]),
                              maps |-> SetMap(m, vis)]
                ELSE tree' = [calls |-> SetCall(k, [c EXCEPT !.pc = "ret",
                                                 !.err = <<"command not found", n.name>>]),
                              maps |-> SetMap(m, vis)]
           ELSE IF NoRunCommands(Commands[resolvedName])
           THEN tree' = [calls |-> SetCall(k, [c EXCEPT !.pc = "ret",
                                     !.err = <<"no run commands defined", resolvedName>>]),
                         maps |-> SetMap(m, vis)]
           ELSE IF Len(depCommands) > 0
           THEN tree' = [calls |->
                            SetCall(k, [c EXCEPT !.pc = "wait",
                                           !.kids = [j \in 1..Len(depCommands) |->
                                                        Len(tree.calls) + j]])
                            \o [j \in 1..Len(depCommands) |-> Node(depCommands[j], k)],
                         maps |-> SetMap(m, Mark(vis, resolvedName))]
           ELSE tree' = [calls |-> SetCall(k, [c EXCEPT !.pc = "getwd"]),
                         maps |-> SetMap(m, vis)]
    /\ UNCHANGED <<processVars, cwd, env>>

\* Lines 895-903, 531-533 and 549 in goroutine k: wg.Wait() returns when the
\* goroutines of the dependencies are done; the first error in the channel,
\* if any, is returned, else the mark is cleared.
GoWait(k) ==
    /\ k \in 1..Len(tree.calls)
    /\ tree.calls[k].pc = "wait"
    /\ LET n == tree.calls[k]
       IN  /\ \A j \in 1..Len(n.kids) : tree.calls[n.kids[j]].pc = "done"
           /\ IF n.errChan # <<>>
              THEN tree' = [tree EXCEPT !.calls = SetCall(k, [n EXCEPT !.pc = "ret",
                                                                !.err = Head(n.errChan)])]
              ELSE tree' = [calls |-> SetCall(k, [n EXCEPT !.pc = "getwd"]),
                            maps |-> SetMap(n.map, tree.maps[n.map] \ {n.task})]
    /\ UNCHANGED <<processVars, cwd, env>>

\* Lines 552-588 in goroutine k: the environment is set, and a task with a
\* directory reads the working directory of the process.
GoGetwd(k) ==
    /\ k \in 1..Len(tree.calls)
    /\ tree.calls[k].pc = "getwd"
    /\ LET n == tree.calls[k]
           cmd == Commands[n.task]
       IN  /\ env' = Setenv(Setenv(env, cfg.Env), cmd.Env)
           /\ tree' = [tree EXCEPT !.calls = SetCall(k,
                          IF cmd.Dir # ""
                          THEN [n EXCEPT !.pc = "chdir", !.originalDir = cwd]
                          ELSE [n EXCEPT !.pc = "body"])]
    /\ UNCHANGED <<processVars, cwd>>

\* Lines 589-603 in goroutine k: os.Chdir, with the restore deferred.
GoChdir(k) ==
    /\ k \in 1..Len(tree.calls)
    /\ tree.calls[k].pc = "chdir"
    /\ LET n == tree.calls[k]
           dir == Commands[n.task].Dir
       IN  IF dir \notin ExistingDirs
           THEN /\ tree' = [tree EXCEPT !.calls = SetCall(k, [n EXCEPT !.pc = "ret",
                                          !.err = <<"failed to change to directory", dir>>])]
                /\ UNCHANGED cwd
           ELSE /\ tree' = [tree EXCEPT !.calls = SetCall(k, [n EXCEPT !.pc = "body",
                                                                       !.chdir = TRUE])]
                /\ cwd' = dir
    /\ UNCHANGED <<processVars, env>>

\* executeCommands (696-789) in goroutine k: the next body command is started
\* in the working directory of the process and succeeds or fails; after the
\* last one the call goes on to its return (677-692).
GoCommand(k) ==
    /\ k \in 1..Len(tree.calls)
    /\ tree.calls[k].pc = "body"
    /\ LET n == tree.calls[k]
           run == GetForCurrentPlatform(Commands[n.task])
           last == n.i = Len(run)
       IN  \E ok \in BOOLEAN :
             tree' = [tree EXCEPT !.calls = SetCall(k,
                        [n EXCEPT !.ranIn = Append(@, cwd),
                                  !.i = IF ok THEN @ + 1 ELSE @,
                                  !.pc = IF ok /\ ~last THEN "body" ELSE "ret",
                                  !.err = IF ok THEN NoErr
                                          ELSE <<"command failed", run[n.i]>>])]
    /\ UNCHANGED <<processVars, cwd, env>>

\* The return of call k: the deferred os.Chdir(originalDir) (602), then in
\* the goroutine the error, wrapped, is sent to the channel of the caller
\* (889-891) and wg.Done() runs (874).
GoReturn(k) ==
    /\ k \in 1..Len(tree.calls)
    /\ tree.calls[k].pc = "ret"
    /\ LET n == tree.calls[k]
           done == SetCall(k, [n EXCEPT !.pc = "done"])
       IN  /\ cwd' = IF n.chdir THEN n.originalDir ELSE cwd
           /\ tree' = [tree EXCEPT !.calls =
                         IF n.parent # 0 /\ n.err # NoErr
                         THEN [done EXCEPT ![n.parent].errChan =
                                               Append(@, Wrapped("deps", n.item, n.err))]
                         ELSE done]
    /\ UNCHANGED <<processVars, env>>

\* build depends on test and lint, which both depend on gen (a diamond);
\* gen may depend on fmt, and fmt on test, which closes a cycle.  test and
\* lint run where they are or in a directory of their own.
TreeConfigs ==
    {[Commands |->
        [n \in {"build", "test", "lint", "gen", "fmt"} |->
            CASE n = "build" -> Cmd(<<"go build">>, <<"test", "lint">>, <<>>, <<>>)
              [] n = "test"  -> [Cmd(<<"go test">>, <<"gen">>, <<>>, <<>>) EXCEPT !.Dir = td]
              [] n = "lint"  -> [Cmd(<<"golint">>, <<"gen">>, <<>>, <<>>) EXCEPT !.Dir = ld]
              [] n = "gen"   -> Cmd(<<"go generate">>, gd, <<>>, <<>>)
              [] n = "fmt"   -> Cmd(<<"gofmt">>, fd, <<>>, <<>>)],
      Parallel |-> TRUE, Default |-> "", Env |-> {},
      Variables |-> <<>>] :
        <<td, ld, gd, fd>> \in
            {"", "sub"} \X {"", "web"} \X {<<>>, <<"fmt">>} \X {<<>>, <<"test">>}}

InitTree == InitWith(TreeConfigs, 0)

NextTree ==
    \/ RunInParallel("build")
    \/ \E k \in 1..Len(tree.calls) : GoEnter(k)
    \/ \E k \in 1..Len(tree.calls) : GoWait(k)
    \/ \E k \in 1..Len(tree.calls) : GoGetwd(k)
    \/ \E k \in 1..Len(tree.calls) : GoChdir(k)
    \/ \E k \in 1..Len(tree.calls) : GoCommand(k)
    \/ \E k \in 1..Len(tree.calls) : GoReturn(k)

SpecTree == InitTree /\ [][NextTree]_vars

(***************************************************************************)
(* Properties.  They are stated over the log of the current top-level call: *)
(* positions of the log, the call a position belongs to, the position at   *)
(* which a call returned.                                                  *)
(***************************************************************************)
Pos == 1..Len(log)

max(S) == CHOOSE x \in S : \A y \in S : y <= x

\* The position at which the call made at position c returned, 0 if it has not.
RetOf(c) ==
    LET S == {r \in Pos : r > c /\ log[r].ev = "ret" /\ log[r].d = log[c].d}
    IN  IF S = {} THEN 0 ELSE min(S)

\* The call made at position c returned before position k.
Done(c, k) == \E r \in (c + 1)..(k - 1) : log[r].ev = "ret" /\ log[r].d = log[c].d

\* The last position of the call made at position c.
EndOf(c) == IF RetOf(c) = 0 THEN Len(log) ELSE RetOf(c)

\* The caller of the call made at position c.
Parent(c) == max({p \in 1..(c - 1) : log[p].ev = "call" /\ log[p].d = log[c].d - 1})

\* The directly named task, its hooks and dependencies, its body.
TopTask == IF stack # <<>> THEN stack[1].task ELSE log[Len(log)].name
Calls(kind) == {k \in Pos : log[k].ev = "call" /\ log[k].d = 2 /\ log[k].x = kind}
BodyCmds == {k \in Pos : log[k].d = 1 /\ log[k].ev = "cmd"}
BodyRes ==
    {k \in Pos : /\ log[k].d = 1
                 /\ (log[k].ev = "res" \/ (log[k].ev = "cmd" /\ log[k].x = "dry"))}
Attempts1 == {k \in Pos : log[k].d = 1 /\ log[k].ev = "attempt"}
BodyAct == BodyCmds \cup BodyRes \cup Attempts1

\* The attempts of the directly named task that ran its last command with
\* success.
OkAttempts ==
    {log[k].n : k \in {j \in BodyRes :
                         /\ log[j].x \in {"ok", "dry"}
                         /\ log[j].name = GetForCurrentPlatform(Commands[TopTask])[Len(GetForCurrentPlatform(Commands[TopTask]))]}}

AttemptOk(n) == n \in OkAttempts

SomeAttemptOk == OkAttempts # {}

\* The error of the last body command that failed.
LastBodyErr ==
    LET k == max({j \in BodyRes : log[j].x \in {"failed", "timed out", "interrupted"}})
    IN  CASE log[k].x = "failed" -> <<"command failed", log[k].name>>
          [] log[k].x = "timed out" ->
                 <<"command timed out", Commands[TopTask].Timeout, log[k].name>>
          [] OTHER -> <<"command interrupted", log[k].name>>

\* The top-level call has returned.
Ended == stack = <<>> /\ log # <<>>

\* The dependencies whose run failed.
FailedDeps ==
    {c \in Pos : /\ log[c].ev = "call"
                 /\ log[c].x = "dep"
                 /\ RetOf(c) # 0
                 /\ log[RetOf(c)].x = "err"}

\* C1: when a dependency B of a task A fails, A executes none of its body
\* commands, starts nothing after B, runs B once, and returns at once an error
\* that names B.
C1_DependencyFailureAborts ==
    \A c \in FailedDeps :
        LET d == log[c].d
            r == RetOf(c)
            p == Parent(c)
            e == EndOf(Parent(c))
        IN  /\ \A k \in p..e : ~(log[k].ev = "cmd" /\ log[k].d = d - 1)
            /\ \A k \in (r + 1)..e : ~(log[k].ev = "call" /\ log[k].d = d)
            /\ Cardinality({k \in p..e : /\ log[k].ev = "call"
                                         /\ log[k].d = d
                                         /\ log[k].x = "dep"
                                         /\ log[k].n = log[c].n}) = 1
            /\ r < Len(log) => /\ log[r + 1].ev = "ret"
                               /\ log[r + 1].d = d - 1
                               /\ log[r + 1].x = "err"
            /\ r + 1 = Len(log) => /\ ret # NoErr
                                   /\ ret[1] = "dependency failed for command"
                                   /\ ret[2] = log[c].name

\* A task with one retry whose first dependency was found and failed in its
\* body, a second dependency being declared after it.
C1_Witness ==
    /\ Ended
    /\ Commands["build"].Retry >= 1
    /\ \E c \in FailedDeps : /\ log[c].d = 2
                             /\ log[c].name = "t"
                             /\ log[c].n < Len(Commands["build"].Dep)
    /\ ret # NoErr

\* C2: for the directly named task every pre-hook has returned before the
\* first dependency starts; the dependencies start in declared order, none left
\* out, each after the one before it returned; all of them have returned before
\* the body starts; a post-hook starts only after the last body attempt, and
\* only if that attempt succeeded or post_always is set.
C2_SequentialOrder ==
    LET cmd == Commands[TopTask]
        pre == Calls("pre")
        dep == Calls("dep")
        post == Calls("post")
        act == BodyAct
        res == BodyRes
    IN  /\ \A q \in dep :
               /\ \A p \in pre : Done(p, q)
               /\ \A m \in 1..Len(cmd.Pre) : \E p \in pre : log[p].n = m
               /\ log[q].name = cmd.Dep[log[q].n]
               /\ \A m \in 1..(log[q].n - 1) : \E p \in dep : log[p].n = m /\ Done(p, q)
               /\ \A p \in dep : p < q => log[p].n < log[q].n
        /\ act # {} =>
               /\ \A p \in pre \cup dep : Done(p, min(act))
               /\ \A m \in 1..Len(cmd.Dep) : \E q \in dep : log[q].n = m
        /\ post # {} =>
               /\ res # {}
               /\ max(act) < min(post)
               /\ cmd.PostAlways
                  \/ (/\ log[max(res)].x \in {"ok", "dry"}
                      /\ log[max(res)].name = GetForCurrentPlatform(cmd)[Len(GetForCurrentPlatform(cmd))])

\* A run with a pre-hook, two dependencies, the body and post-hooks.
C2_Witness ==
    /\ Ended
    /\ ret = NoErr
    /\ Calls("pre") # {}
    /\ Cardinality(Calls("dep")) = 2
    /\ BodyCmds # {}
    /\ Cardinality(Calls("post")) = 2

\* C3: the body is attempted at most retry + 1 times, once when retry is not
\* positive; no attempt follows a successful one and a failed one is followed
\* by another until that number is reached; the call returns nil iff an attempt
\* succeeded, else the error of the last attempt; with retry = 3 a body that
\* fails twice and then succeeds is run 3 times and the call returns nil.
C3_RetryAttempts ==
    Attempts1 # {} =>
        LET cmd == Commands[TopTask]
            n == Cardinality(Attempts1)
            allowed == IF cmd.Retry > 0 THEN cmd.Retry + 1 ELSE 1
            oks == OkAttempts
        IN  /\ n <= allowed
            /\ {log[k].n : k \in Attempts1} = 1..n
            /\ oks \subseteq {n}
            /\ Ended =>
                   /\ ret = NoErr <=> oks # {}
                   /\ oks = {} => /\ ret = LastBodyErr
                                  /\ log[max(BodyRes)].n = n
                                  /\ n = allowed
                   /\ (cmd.Retry = 3 /\ oks = {3}) => n = 3 /\ ret = NoErr

\* retry = 3, two failed attempts, a third that succeeded.
C3_Witness ==
    /\ Ended
    /\ Commands[TopTask].Retry = 3
    /\ Cardinality(Attempts1) = 3
    /\ AttemptOk(3)
    /\ ret = NoErr

\* C4: with retry = N >= 1 the body is tried at most N times in total, and the
\* retry announcement counts the attempts out of N.
C4_RetryIsTotalAttempts ==
    (Attempts1 # {} /\ Commands[TopTask].Retry >= 1) =>
        /\ Cardinality(Attempts1) <= Commands[TopTask].Retry
        /\ stack # <<>> => stack[1].maxAttempts = Commands[TopTask].Retry

\* C5: post_always set, post-hooks declared, every body attempt failed: each
\* post-hook is called exactly once, after the last body attempt, and the call
\* returns the error of the last attempt.
C5_PostAlwaysAfterFailure ==
    (/\ Ended
     /\ Attempts1 # {}
     /\ ~SomeAttemptOk
     /\ Commands[TopTask].PostAlways
     /\ Len(Commands[TopTask].Post) > 0) =>
        LET cmd == Commands[TopTask]
        IN  /\ Cardinality(Calls("post")) = Len(cmd.Post)
            /\ \A m \in 1..Len(cmd.Post) :
                   \E h \in Calls("post") : log[h].n = m /\ log[h].name = cmd.Post[m]
            /\ \A h \in Calls("post") : /\ \A b \in BodyAct : b < h
                                        /\ RetOf(h) # 0
            /\ ret = LastBodyErr

\* Two attempts that failed, then the post-hooks.
C5_Witness ==
    /\ Ended
    /\ Commands[TopTask].PostAlways
    /\ Cardinality(Attempts1) >= 2
    /\ ~SomeAttemptOk
    /\ Cardinality(Calls("post")) = 2
    /\ ret # NoErr

\* The post-hooks whose run failed.
FailedPostHooks == {h \in Calls("post") : RetOf(h) # 0 /\ log[RetOf(h)].x = "err"}

\* C6: the body succeeded and a post-hook failed: every post-hook is still
\* called, once, in declared order, and the call returns nil.
C6_PostHookFailureIsWarning ==
    (Ended /\ SomeAttemptOk /\ FailedPostHooks # {}) =>
        LET cmd == Commands[TopTask]
        IN  /\ ret = NoErr
            /\ Cardinality(Calls("post")) = Len(cmd.Post)
            /\ \A m \in 1..Len(cmd.Post) :
                   \E h \in Calls("post") : log[h].n = m /\ log[h].name = cmd.Post[m]
            /\ \A h \in Calls("post"), g \in Calls("post") :
                   log[h].n < log[g].n => Done(h, g)

\* The first post-hook names no task, the second one ran after it.
C6_Witness ==
    /\ Ended
    /\ SomeAttemptOk
    /\ \E h \in FailedPostHooks :
           /\ log[h].name = "nope"
           /\ \E g \in Calls("post") : g > h /\ log[g].name = "lint"
    /\ ret = NoErr

\* The change-gate skipped the directly named task.
Skipped == \E k \in Pos : log[k].ev = "skip" /\ log[k].d = 1

\* A finished top-level run, without force and not dry, of a task that declares
\* if_changed patterns.
GatedRun ==
    /\ Ended
    /\ TopTask \in DOMAIN Commands
    /\ Len(Commands[TopTask].IfChanged) > 0
    /\ ~cur.Force
    /\ ~cur.DryRun

\* The run before this one was a successful run of the same task, not dry.
AfterSuccess == prev.task = TopTask /\ prev.ok /\ ~prev.DryRun

KeyOf(t) == cacheKey(t, Commands[t].IfChanged)

\* C7: the run that follows a successful run skips the body when no file was
\* modified in between and executes it when a matched file was; a run that
\* finds no cache entry executes the body.
C7_ChangeGateRoundTrip ==
    GatedRun =>
        /\ (AfterSuccess /\ cur.touched = {}) => (Skipped /\ BodyCmds = {})
        /\ (AfterSuccess /\ "main.go" \in cur.touched) =>
               (~Skipped /\ (FailedDeps = {} => BodyCmds # {}))
        /\ KeyOf(TopTask) \notin DOMAIN cur.cache =>
               (~Skipped /\ (FailedDeps = {} => BodyCmds # {}))

\* The entry of the cache under a key, if any.
EntryOf(c, key) == IF key \in DOMAIN c THEN <<c[key]>> ELSE <<>>

\* The cache is written only by a call that is not dry and whose last body
\* attempt succeeded; a top-level run that failed leaves the entry of its
\* task as it was; a dry run and a skipped run leave the whole cache as it was.
CacheFrame ==
    /\ \A k \in Pos :
           log[k].ev = "cache" =>
               /\ ~cur.DryRun
               /\ \E j \in 1..(k - 1) :
                      /\ log[j].ev = "res"
                      /\ log[j].d = log[k].d
                      /\ log[j].x = "ok"
                      /\ log[j].name = GetForCurrentPlatform(Commands[log[k].name])[Len(GetForCurrentPlatform(Commands[log[k].name]))]
                      /\ \A i \in (j + 1)..k : ~(log[i].d = log[k].d /\ log[i].ev \in {"attempt", "res", "cmd"})
    /\ (\A k \in Pos : log[k].ev # "cache") => cache = cur.cache
    /\ (Ended /\ TopTask \in DOMAIN Commands /\ ret # NoErr) =>
           EntryOf(cache, KeyOf(TopTask)) = EntryOf(cur.cache, KeyOf(TopTask))
    /\ (log # <<>> /\ (cur.DryRun \/ Skipped)) => cache = cur.cache

\* C8 as stated: the frame condition, and the run that follows a failed run of
\* the task is never skipped by the change-gate.
C8_RunAfterFailureNeverSkipped ==
    /\ CacheFrame
    /\ (Ended /\ prev.task = TopTask /\ ~prev.ok) => ~Skipped

\* C8, amended: the frame condition, and a run is skipped by the change-gate
\* exactly when the entry an earlier successful run stored equals the current
\* fingerprint, whether or not a failed run came in between.
C8_CacheWrittenOnSuccessOnly ==
    /\ CacheFrame
    /\ (GatedRun /\ touched = {}) =>
           (Skipped <=>
               /\ KeyOf(TopTask) \in DOMAIN cur.cache
               /\ cur.cache[KeyOf(TopTask)] =
                      hashMatchingFiles(Commands[TopTask].IfChanged, ".", mtime))

\* A run that was skipped although the run before it failed.
C8_Witness ==
    /\ Ended
    /\ prev.task = TopTask
    /\ ~prev.ok
    /\ Skipped
    /\ cache # <<>>

\* The dependency graph: an entry names a task by its name or by an alias.
DepTargets(n) ==
    {ResolveCommandName(Commands[n].Dep[k]) : k \in 1..Len(Commands[n].Dep)}
        \cap DOMAIN Commands

RECURSIVE ReachableFrom(_)
ReachableFrom(S) ==
    LET more == S \cup UNION {DepTargets(n) : n \in S}
    IN  IF more = S THEN S ELSE ReachableFrom(more)

HasCycle == \E n \in DOMAIN Commands : n \in ReachableFrom(DepTargets(n))

CircularReported ==
    \E e \in verrors.errors : e[1] = "circular dependency detected involving"

\* C9: Validate() returns a circular-dependency error if and only if the
\* dependency graph, with aliases resolved, contains a cycle.
C9_ValidateReportsEveryCycle ==
    verrors.done => (CircularReported <=> HasCycle)

\* The results "timed out", and the one the runner has just returned from
\* executeCommands with.
TimedOut == {k \in Pos : log[k].ev = "res" /\ log[k].x = "timed out"}

JustTimedOut ==
    {k \in TimedOut : k = Len(log) \/ (k + 1 = Len(log) /\ log[k + 1].ev = "attempt")}

\* C10: a timed command still running when its timer fires is killed with its
\* whole process group; the attempt ends with a "timed out" error that names
\* the duration and the command, and starts no further command; the timer of
\* a command measures the time of that command alone.
C10_TimeoutKillsGroup ==
    /\ \A k \in JustTimedOut :
           LET f == stack[log[k].d]
           IN  /\ proc.child = "killed"
               /\ proc.group = "killed"
               /\ proc.ran = Duration(Commands[f.task].Timeout)
               /\ f.lastErr = <<"command timed out", Commands[f.task].Timeout, log[k].name>>
    /\ \A k \in TimedOut :
           \A j \in (k + 1)..EndOf(max({c \in 1..k : log[c].ev = "call" /\ log[c].d = log[k].d})) :
               ~(log[j].ev = "cmd" /\ log[j].d = log[k].d /\ log[j].n = log[k].n)
    /\ proc.child = "running" => proc.timer = proc.ran
    /\ (At("select") /\ proc.ran < Duration(TopCmd.Timeout)) => ~ENABLED SelectCtxDone

\* The second command of a body timed out, after the first one had ended in
\* time.
C10_Witness ==
    \E k \in JustTimedOut :
        /\ Len(GetForCurrentPlatform(Commands[TopTask])) = 2
        /\ log[k].name = GetForCurrentPlatform(Commands[TopTask])[2]
        /\ \E j \in 1..(k - 1) : log[j].ev = "res" /\ log[j].x = "ok" /\ log[j].n = log[k].n
        /\ proc.group = "killed"

\* C11: a parallel fan-out has one branch per item, each running its item; it
\* returns only when every branch has finished; it returns nil if and only if
\* every branch succeeded, and otherwise the wrapped error of a failed branch.
C11_FanOutWaitsForAll ==
    /\ par.kind # "" =>
         /\ Len(par.branch) = Len(par.items)
         /\ \A k \in Branches :
              par.branch[k].task # "" =>
                  par.branch[k].task = ResolveCommandName(par.items[k])
    /\ par.joined =>
         /\ \A k \in Branches : par.branch[k].pc = "done"
         /\ par.result = NoErr <=> \A k \in Branches : par.branch[k].err = NoErr
         /\ par.result # NoErr =>
              \E k \in Branches :
                 /\ par.branch[k].err # NoErr
                 /\ par.result = Wrapped(par.kind, par.items[k], par.branch[k].err)

\* A fan-out of three branches has returned an error; one branch failed, and
\* another ran body commands after that failure and succeeded.
C11_Witness ==
    /\ par.joined
    /\ Len(par.branch) = 3
    /\ par.result # NoErr
    /\ \E k \in Branches :
          par.branch[k].late /\ par.branch[k].err = NoErr /\ par.branch[k].i > 1

\* C12: in a parallel multi-command run, once one command has failed no other
\* command of the run starts a further body command and then completes.
C12_FirstFailureStopsEverything ==
    par.kind = "commands" =>
        \A k \in Branches :
            ~(par.branch[k].late /\ par.branch[k].pc = "done" /\ par.branch[k].err = NoErr)

\* The calls that returned nil, and the body commands a call started or
\* reported.
ReturnedOk == {c \in Pos : log[c].ev = "call" /\ RetOf(c) # 0 /\ log[RetOf(c)].x = "ok"}

CmdsOf(c) == {k \in (c + 1)..EndOf(c) : log[k].ev = "cmd" /\ log[k].d = log[c].d}

\* The call made at position c called entry m of a list of its task, as kind.
Called(c, kind, m, name) ==
    \E q \in (c + 1)..EndOf(c) :
        /\ log[q].ev = "call"
        /\ log[q].d = log[c].d + 1
        /\ log[q].x = kind
        /\ log[q].n = m
        /\ log[q].name = name

C14_WorkingDirectoryRestored ==
    [][(/\ Len(stack') < Len(stack)
        /\ ~Top.DryRun
        /\ ResolveCommandName(Top.name) \in DOMAIN Commands
        /\ Commands[ResolveCommandName(Top.name)].Dir # "")
       => cwd' = Top.entryDir]_vars

\* The named task changed to its directory, after a dependency with a directory
\* of its own had returned, and failed in its body; the call has returned.
C14_Witness ==
    /\ Ended
    /\ ~cur.DryRun
    /\ Commands[TopTask].Dir = "sub"
    /\ Calls("dep") # {}
    /\ ret # NoErr
    /\ ret[1] = "command failed"
    /\ cwd = cur.cwd

\* The words of a command text with every other variable replaced, and the
\* number of times the word w occurs in a line.
Plainly(words) == interpolateVariables(words, <<>>)

NotArgsToken(w) == w # "{{args}}"

Occurrences(w, line) == Cardinality({k \in 1..Len(line) : line[k] = w})

EnvNames(table) == {p[1] : p \in table}

\* C16: every variable in the environment of a body command was there when the
\* invocation started, or is set by the global env table or by the env table
\* of the task the command belongs to.
C16_EnvIsTaskLocal ==
    \A k \in Pos :
        log[k].ev = "cmd" =>
            \A p \in log[k].env :
                \/ p \in cur.env
                \/ p[1] \in EnvNames(cfg.Env)
                \/ p[1] \in EnvNames(Commands[log[k].task].Env)

\* The call an event at position k belongs to.
CallOf(k) == max({p \in 1..(k - 1) : log[p].ev = "call" /\ log[p].d = log[k].d})

\* C17: hooks are called by the task named at the top level only; a task that
\* runs as a hook or as a dependency is called without passthrough arguments,
\* calls none of its hooks, and has called each of its own dependencies, which
\* have returned, before its body starts.
C17_HooksOnlyForNamedTask ==
    /\ \A k \in Pos :
          (log[k].ev = "call" /\ log[k].x \in {"pre", "post"}) => log[k].d = 2
    /\ \A j \in 2..Len(stack) : stack[j].IsDependency /\ stack[j].Args = <<>>
    /\ \A k \in Pos :
          (log[k].ev = "cmd" /\ log[k].d > 1) =>
              log[k].line = CommandLine(log[k].name, <<>>)
    /\ \A a \in Pos :
          (log[a].ev = "attempt" /\ log[a].d > 1) =>
              LET dep == Commands[log[a].name].Dep
              IN  \A m \in 1..Len(dep) :
                     \E q \in (CallOf(a) + 1)..(a - 1) :
                        /\ log[q].ev = "call"
                        /\ log[q].d = log[a].d + 1
                        /\ log[q].x = "dep"
                        /\ log[q].n = m
                        /\ log[q].name = dep[m]
                        /\ Done(q, a)

\* In a run with arguments a task that declares hooks and a dependency has run
\* as a dependency of the named task: its dependency was called, the task has
\* returned nil.
C17_Witness ==
    /\ cur.Args # <<>>
    /\ \E c \in ReturnedOk :
          /\ log[c].d = 2
          /\ log[c].x = "dep"
          /\ Commands[log[RetOf(c)].name].Pre # <<>>
          /\ Commands[log[RetOf(c)].name].Post # <<>>
          /\ Commands[log[RetOf(c)].name].Dep # <<>>
          /\ Called(c, "dep", 1, Commands[log[RetOf(c)].name].Dep[1])

TargetOf(name) ==
    IF ResolveCommandName(name) \in DOMAIN Commands THEN ResolveCommandName(name)
    ELSE FuzzyMatch(name)

\* The calls of a task whose run list for the host OS, or default list when
\* run has no list for the host, is empty.
EmptyCalls ==
    {c \in Pos : /\ log[c].ev = "call"
                 /\ TargetOf(log[c].name) # ""
                 /\ GetForCurrentPlatform(Commands[TargetOf(log[c].name)]) = <<>>}

\* C19: a call of a task whose selected run list is empty returns an error, in
\* a dry run too, and does nothing else: no hook, no dependency, no attempt; at
\* the top level the error is 'no run commands defined' and the environment,
\* the working directory and the cache are as they were.
C19_EmptyRunListIsAnError ==
    \A c \in EmptyCalls :
        /\ \A k \in (c + 1)..EndOf(c) :
              \/ log[k].ev = "fuzzy" /\ log[k].d = log[c].d
              \/ log[k].ev = "ret" /\ log[k].d = log[c].d /\ log[k].x = "err"
        /\ (log[c].d = 1 /\ Ended) =>
              /\ ret = <<"no run commands defined", TargetOf(log[c].name)>>
              /\ env = cur.env
              /\ cwd = cur.cwd
              /\ cache = cur.cache

\* A run, not dry, of a task that declares a pre-hook, a dependency, a
\* post-hook, an env table and a directory, and whose run has an empty list
\* for the host OS, has returned.
C19_Witness ==
    /\ Ended
    /\ ~cur.DryRun
    /\ EmptyCalls # {}
    /\ \E p \in Commands[TopTask].RunByOS : p[1] = GOOS
    /\ Commands[TopTask].Pre # <<>>
    /\ Commands[TopTask].Dep # <<>>
    /\ Commands[TopTask].Post # <<>>
    /\ Commands[TopTask].Env # {}
    /\ Commands[TopTask].Dir = "sub"
    /\ ret # NoErr

\* C20: FuzzyMatch returns a task exactly when, among the task names and the
\* aliases within the threshold (2 for an input of at most 5 characters, 3 for
\* a longer one), the ones at the least distance all belong to that one task;
\* it returns "" when they belong to different tasks or when nothing is within
\* the threshold; this holds for every order in which the loops visit the
\* names and the aliases.
C20_FuzzyMatchUniqueBest ==
    match.done =>
        LET name == match.name
            threshold == IF Len(Chars(name)) <= 5 THEN 2 ELSE 3
            near == {<<n, Distance[name, n]>> : n \in DOMAIN Commands}
                    \cup {<<aliasMap[a], Distance[name, a]>> :
                             a \in DOMAIN aliasMap}
            within == {p \in near : p[2] <= threshold}
            best == min({p[2] : p \in within})
            winners == {p[1] : p \in {q \in within : q[2] = best}}
        IN  IF within # {} /\ Cardinality(winners) = 1
            THEN match.result \in winners
            ELSE match.result = ""

\* A call whose alias loop met an alias of another task, within the threshold,
\* before two aliases of one task at the least distance, and returned that
\* task.
C20_Witness ==
    /\ match.done
    /\ match.name = "bl"
    /\ match.result = "build"
    /\ {"t", "b", "bld"} \subseteq DOMAIN aliasMap
    /\ match.aliasKeys[1] = "t"

\* An argument main expands (242).
IsPattern(arg) == Contains(Chars(arg), "*")

\* The task names a namespace pattern ns:* stands for.
InNamespace(pattern) ==
    {n \in DOMAIN Commands :
        \E k \in 0..Len(Chars(n)) :
            SubSeq(Chars(n), 1, k) \o <<"*">> = Chars(pattern)}

\* C21: when imlazy is invoked with one wildcard argument, every task the
\* engine is asked to run is a task whose name matches the pattern (also
\* when exactly one task matches), and when no task matches the process
\* exits with an error and has run nothing.
C21_WildcardRunsTheMatches ==
    (Len(cli.remainingArgs) = 1 /\ IsPattern(cli.remainingArgs[1])) =>
        /\ log # <<>> => log[1].name \in {n \in DOMAIN Commands :
                                             WildcardMatches(cli.remainingArgs[1], n)}
        /\ (\A n \in DOMAIN Commands : ~WildcardMatches(cli.remainingArgs[1], n)) =>
               /\ cli.pc = "exit" /\ cli.exit = 1
               /\ log = <<>> /\ history.entries = <<>>

\* C22: MatchWildcard("ns:*") returns the task names that start with "ns:",
\* each once, in ascending order, and the empty list when there is none;
\* over test:unit, test:integration and build:dev the pattern test:* yields
\* test:integration, test:unit.
C22_MatchWildcardSortedNamespace ==
    \A p \in {"test:*", "build:*", "lint:*"} :
        cli.remainingArgs = <<p>> =>
            /\ Range(cli.commands) = InNamespace(p)
            /\ Len(cli.commands) = Cardinality(InNamespace(p))
            /\ \A i, j \in 1..Len(cli.commands) :
                   i < j => StringLess(Chars(cli.commands[i]), Chars(cli.commands[j]))
            /\ (p = "test:*" /\ DOMAIN Commands = {"test:unit", "test:integration", "build:dev"})
                   => cli.commands = <<"test:integration", "test:unit">>

C22_Witness ==
    /\ cli.remainingArgs = <<"test:*">>
    /\ DOMAIN Commands = {"test:unit", "test:integration", "build:dev"}
    /\ cli.commands = <<"test:integration", "test:unit">>

\* The entries added so far are those with Timestamp 1 to history.clock; the
\* last n of them, oldest first, bear the Timestamps clock - n + 1 to clock.
IsLastAdded(entries, n) ==
    /\ Len(entries) = n
    /\ \A i \in 1..n : entries[i].Timestamp = history.clock - n + i

\* C23: the stored history holds at most 100 entries, which are the most
\* recently added ones in insertion order; GetLastCommand returns the entry
\* added last and GetHistory(n), n >= 1, the last n entries (all of them
\* when there are fewer).
C23_HistoryKeepsLastHundred ==
    LET stored == Len(history.entries)
    IN  /\ stored <= 100
        /\ IsLastAdded(history.entries, IF history.clock < 100 THEN history.clock ELSE 100)
        /\ (stored > 0) => GetLastCommand = <<history.entries[stored]>>
        /\ (history.limit > 0) =>
               IsLastAdded(history.got, IF history.limit < stored THEN history.limit ELSE stored)

C23_Witness ==
    /\ history.clock > 100
    /\ Len(history.entries) = 100
    /\ history.limit = 3
    /\ Len(history.got) = 3

\* The tasks that declare a name as an alias.
Declaring(name) == {n \in DOMAIN Commands : name \in Range(Commands[n].Alias)}

\* C24: ResolveCommandName applied to its own result returns that result; a
\* task name resolves to itself even when a task declares it as an alias,
\* any other name that is an alias resolves to a task declaring it, and
\* every other input is returned unchanged.
C24_ResolveIdempotent ==
    call.fn = "ResolveCommandName" =>
        LET name == call.in[1]
            once == call.out[1]
            twice == call.out[2]
        IN  /\ twice = once
            /\ name \in DOMAIN Commands => once = name
            /\ (name \notin DOMAIN Commands /\ Declaring(name) # {}) => once \in Declaring(name)
            /\ (name \notin DOMAIN Commands /\ Declaring(name) = {}) => once = name

\* A task name that another task declares as an alias has been resolved.
C24_Witness ==
    /\ call.fn = "ResolveCommandName"
    /\ call.in[1] \in DOMAIN Commands
    /\ Declaring(call.in[1]) # {}
    /\ call.out = <<call.in[1], call.in[1]>>

\* What a piece may become: a piece that is no token, or a token whose
\* identifier is in none of the three scopes, stays as it is; any other token
\* becomes the value its identifier has in one of the scopes, as that value
\* is written.
PieceOutputs(piece, extraVars) ==
    LET id == VarOf(piece)
        scopes == {extraVars, Variables, [os |-> <<"linux">>, arch |-> <<"amd64">>,
                                           cwd |-> <<cwd>>]}
    IN  IF id = "" \/ \A sc \in scopes : id \notin DOMAIN sc
        THEN {<<piece>>}
        ELSE {sc[id] : sc \in {sc \in scopes : id \in DOMAIN sc}}

RECURSIVE Outputs(_, _)
Outputs(input, extraVars) ==
    IF input = <<>> THEN {<<>>}
    ELSE {p \o rest : p \in PieceOutputs(Head(input), extraVars),
                      rest \in Outputs(Tail(input), extraVars)}

\* C25: interpolateVariables returns an input without {{identifier}} token
\* unchanged, leaves every token whose identifier is in none of the three
\* scopes as it is, and puts the value of every other token in as the value
\* is written, tokens inside it included.
C25_InterpolateSinglePass ==
    call.fn = "interpolateVariables" =>
        LET input == call.in[1]
            extraVars == call.in[2]
        IN  /\ call.out \in Outputs(input, extraVars)
            /\ (\A k \in 1..Len(input) : VarOf(input[k]) = "") => call.out = input

\* A value that holds a token of a defined variable has been put in as written.
C25_Witness ==
    /\ call.fn = "interpolateVariables"
    /\ call.in[1] = <<"go", "{{name}}">>
    /\ "version" \in DOMAIN Variables
    /\ call.out = <<"go", "app-", "{{version}}">>

\* The files a file includes, and the files reached from a file by one
\* include or more.
Included(file) == Range(load.include[file])

RECURSIVE IncludeClosure(_, _)
IncludeClosure(files, n) ==
    IF n = 0 THEN files
    ELSE IncludeClosure(files \cup UNION {Included(f) : f \in files}, n - 1)

ReachedFrom(file) == IncludeClosure(Included(file), Cardinality(TomlFiles))

IncludeCycle ==
    \E f \in {RootFile} \cup ReachedFrom(RootFile) : f \in ReachedFrom(f)

\* C26: loading fails with the circular-include error exactly when the
\* includes reachable from the root file form a cycle; a file that is
\* reached twice along different acyclic paths is loaded without error.
C26_CircularIncludeIffCycle ==
    load.pc = "done" => ((load.err # NoErr) <=> IncludeCycle)

\* The time between event k and the event after it.
Gap(k) == watch.events[k + 1] - watch.events[k]

\* The events that end a burst whose re-run is due by now: no event follows
\* within the debounce time, and the debounce time has passed since.
BurstEnds ==
    {k \in 1..Len(watch.events) :
        /\ k = Len(watch.events) \/ Gap(k) > DebounceTicks
        /\ \/ watch.now > watch.events[k] + DebounceTicks
           \/ watch.now = watch.events[k] + DebounceTicks /\ ~watch.due}

\* C27: events that follow one another within the debounce time trigger one
\* re-run, started one debounce time after the last of them: the re-runs
\* started so far are, once each, those of the bursts that ended at least
\* one debounce time ago.  An event that comes at the very instant the timer
\* runs out may or may not stop it; the statement is about the other events.
C27_DebounceOneRerunPerBurst ==
    (\A k \in 1..(Len(watch.events) - 1) : Gap(k) # DebounceTicks) =>
        /\ Len(watch.reruns) = Cardinality(BurstEnds)
        /\ Range(watch.reruns) = {watch.events[k] + DebounceTicks : k \in BurstEnds}

\* A burst of three events, each less than the debounce time after the one
\* before, has been followed by its one re-run.
C27_Witness ==
    /\ Len(watch.events) = 3
    /\ \A k \in 1..2 : Gap(k) > 0 /\ Gap(k) < DebounceTicks
    /\ watch.reruns = <<watch.events[3] + DebounceTicks>>
    /\ watch.now > watch.events[3] + DebounceTicks

\* C28: a dep, pre or post entry that is neither a task name nor an alias
\* is never fuzzy-resolved: only the call for the name given at the top
\* level is fuzzy-matched, and a call for such an entry returns "command
\* not found".
C28_EntriesNeverFuzzyResolved ==
    \A k \in 1..Len(log) :
        (log[k].ev = "fuzzy" => log[k].d = 1)

\* A body command that was started under a timeout.
TimedCmd(k) ==
    log[k].ev = "cmd" /\ log[k].x = "" /\ Commands[log[k].task].Timeout # ""

\* The result of the timed command started last, when it has one.
LastTimedResult ==
    IF \E k \in 1..(Len(log) - 1) : TimedCmd(k) /\ \A j \in (k + 1)..Len(log) : log[j].ev # "cmd"
    THEN LET k == CHOOSE k \in 1..(Len(log) - 1) :
                      TimedCmd(k) /\ \A j \in (k + 1)..Len(log) : log[j].ev # "cmd"
         IN  log[k + 1].x
    ELSE ""

\* C29: a timed command gets exactly one result, that of the case the select
\* took: completion (the child ended by itself), timeout (the group was
\* killed) or interrupt.  On an interrupt termination is sent to the group of
\* the child, and the interrupted error is returned only when the child has
\* exited.
C29_OneOutcomePerTimedCommand ==
    /\ \A k \in 1..Len(log) :
          TimedCmd(k) =>
              IF k = Len(log) THEN At("select") \/ At("sigwait")
              ELSE /\ log[k + 1].ev = "res"
                   /\ log[k + 1].name = log[k].name
                   /\ log[k + 1].d = log[k].d
                   /\ log[k + 1].x \in {"ok", "failed", "timed out", "interrupted"}
                   /\ k + 2 <= Len(log) => log[k + 2].ev # "res"
    /\ At("sigwait") =>
          /\ TimedCmd(Len(log))
          /\ proc.child = "terminating" /\ proc.group = "terminating"
    /\ LastTimedResult = "interrupted" => proc.child = "exited" /\ proc.group = "terminating"
    /\ LastTimedResult = "timed out" => proc.child = "killed" /\ proc.group = "killed"
    /\ LastTimedResult \in {"ok", "failed"} => proc.child = "exited" /\ proc.group = "alive"

\* An interrupted command whose child has exited.
C29_Witness ==
    /\ LastTimedResult = "interrupted"
    /\ proc.child = "exited"
    /\ ret = <<"command interrupted", "go build">>

\* C30: a body attempt that ends with the interrupted error is not retried:
\* the call starts no body command in a later attempt.
C30_InterruptedIsNotRetried ==
    \A k \in 1..Len(log) :
        (log[k].ev = "res" /\ log[k].x = "interrupted") =>
            \A j \in (k + 1)..Len(log) :
                ~(log[j].ev = "cmd" /\ log[j].d = log[k].d /\ log[j].n > log[k].n)

(***************************************************************************)
(* C31: when a call of runCommandWithVisited returns, with nil or with an  *)
(* error, the names marked in the visiting map it was passed are exactly   *)
(* the names that were marked when it was entered.                         *)
(***************************************************************************)
C31_VisitingRestoredOnReturn ==
    [][Len(stack') < Len(stack) => visiting' = Top.entryVisiting]_vars

(***************************************************************************)
(* C32: the task is marked as visiting before its pre-hooks run, so inside *)
(* a pre-hook of the task named at the top level no body command of that   *)
(* task is ever started: a pre list that leads back to the task ends in    *)
(* the circular-dependency error instead.                                  *)
(***************************************************************************)
C32_MarkedBeforePreHooks ==
    \A c \in Calls("pre") :
        \A k \in (c + 1)..EndOf(c) : log[k].ev = "cmd" => log[k].task # TopTask

(***************************************************************************)
(* C33: the working-directory change of a task covers its body only: a     *)
(* post-hook of the task is called with the process in the working         *)
(* directory in which the task itself was entered.                         *)
(***************************************************************************)
C33_PostHooksInOriginalDirectory ==
    \A k \in 1..(Depth - 1) :
        stack[k].pc = "postRet" => stack[k + 1].entryDir = stack[k].entryDir

\* The calls of a run in parallel mode, and whether an error is, or wraps, the
\* circular-dependency error.
TreeCalls == 1..Len(tree.calls)

IsCircular(err) == "circular dependency detected" \in Range(err)

(***************************************************************************)
(* C34: in parallel mode every dependency branch works on its own copy of  *)
(* the visiting map: when the dependency graph has no cycle, no call of    *)
(* any branch returns the circular-dependency error, in any interleaving   *)
(* of the branches, also when sibling dependencies share a descendant.     *)
(***************************************************************************)
C34_BranchesCopyVisiting ==
    ~HasCycle => \A k \in TreeCalls : ~IsCircular(tree.calls[k].err)

\* Both branches of the diamond are inside the shared descendant at once,
\* each with the descendant marked in its map.
C34_Witness ==
    /\ ~HasCycle
    /\ \E a, b \in TreeCalls :
         /\ tree.calls[a].parent # tree.calls[b].parent
         /\ tree.calls[a].task = "gen" /\ tree.calls[b].task = "gen"
         /\ tree.calls[a].pc = "wait" /\ tree.calls[b].pc = "wait"
         /\ "gen" \in tree.maps[tree.calls[a].map]
         /\ "gen" \in tree.maps[tree.calls[b].map]

(***************************************************************************)
(* C35: the circular-dependency error, as the error of a run or as the     *)
(* warning of a post-hook, is produced only when the dependency graph has  *)
(* a cycle: in a configuration without one no call ever returns it, also   *)
(* in runs in which a dependency, a hook or a body fails.                  *)
(***************************************************************************)
C35_CircularOnlyWhenCycle ==
    ~HasCycle => ~IsCircular(ret)

\* The run with a scheduler that lets the process take its steps; a body
\* command that was started ends (RunCommand is its end, with either result).
SpecCycleFair == SpecCycle /\ WF_vars(NextCycle)

\* No task is entered twice on a chain of dependency calls.
ChainsNeverReenter ==
    \A a, b \in 1..Depth :
        (a < b /\ \A k \in a..(b - 1) : stack[k].pc = "depRet")
            => (stack[b].task = "" \/ stack[a].task # stack[b].task)

\* Only the call of the command line calls hooks.
HooksCallNoHooks == \A k \in 2..Depth : stack[k].pc \notin {"preRet", "postRet"}

\* A call substitutes a fuzzy match for its name at most once.
FuzzyAtMostOnce ==
    \A c \in {p \in Pos : log[p].ev = "call"} :
        Cardinality({k \in (c + 1)..EndOf(c) :
                        log[k].ev = "fuzzy" /\ log[k].d = log[c].d}) <= 1

(***************************************************************************)
(* C36: every run terminates when every command it starts terminates,     *)
(* whatever the dep, pre and post lists refer to: a chain of dependency    *)
(* calls never re-enters a task that is on it, hooks call no hooks, a name *)
(* is replaced by a fuzzy match at most once, and the call of the command  *)
(* line returns.                                                           *)
(***************************************************************************)
C36_EveryRunTerminates ==
    /\ [](ChainsNeverReenter /\ HooksCallNoHooks /\ FuzzyAtMostOnce)
    /\ (stack # <<>>) ~> (stack = <<>>)

\* A run has ended in a configuration in which build is its own pre-hook and
\* lies on a dependency cycle.
C36_Witness ==
    /\ Ended
    /\ HasCycle
    /\ IsCircular(ret)
    /\ Commands["build"].Pre = <<"build">>

\* Validate() was called and returned no error; the name that was run is the
\* name or an alias of a task.
ValidatedOk == verrors.done /\ verrors.errors = {}

RunsDefinedTask == log # <<>> /\ ResolveCommandName(log[1].name) \in DOMAIN Commands

(***************************************************************************)
(* C37: Validate agrees with the engine: in a configuration on which       *)
(* Validate() returns no error, no call made in the run of a defined task  *)
(* returns the circular-dependency error, and no dep, pre or post entry    *)
(* fails with "command not found".                                         *)
(***************************************************************************)
C37_ValidateAgreesWithEngine ==
    (ValidatedOk /\ RunsDefinedTask)
        => (~IsCircular(ret) /\ "command not found" \notin Range(ret))

\* The top-level call has returned nil after it stored a fingerprint, and no
\* file has been modified since.
StoredFingerprint ==
    /\ Ended
    /\ ret = NoErr
    /\ touched = {}
    /\ \E k \in Pos : log[k].ev = "cache" /\ log[k].d = 1

(***************************************************************************)
(* C38: the fingerprint stored after a successful run is the one the       *)
(* change-gate computes at the entry of the next run when no file has      *)
(* changed: both are taken over the files the patterns match under the     *)
(* same directory, the working directory in which the task is entered.     *)
(***************************************************************************)
C38_StoredFingerprintIsTheGatesFingerprint ==
    StoredFingerprint =>
        cache[KeyOf(TopTask)] = hashMatchingFiles(Commands[TopTask].IfChanged, cwd, mtime)

\* The directory a call's task declares ("" for none, and before the lookup).
DirOf(k) ==
    IF tree.calls[k].task \in DOMAIN Commands THEN Commands[tree.calls[k].task].Dir ELSE ""

\* The fan-out of the call of the command line has returned.
FanOutReturned == tree.calls # <<>> /\ tree.calls[1].pc \notin {"entry", "wait"}

(***************************************************************************)
(* C39: in parallel mode every body command of a task that declares a      *)
(* directory is started with that directory as the working directory of    *)
(* the process, and when the fan-out has returned the working directory    *)
(* of the process is the one in which the run began, in every interleaving *)
(* of the branches.                                                        *)
(***************************************************************************)
C39_ParallelBranchesKeepDirectories ==
    /\ \A k \in TreeCalls :
         DirOf(k) # "" => \A j \in 1..Len(tree.calls[k].ranIn) : tree.calls[k].ranIn[j] = DirOf(k)
    /\ FanOutReturned => cwd = cur.cwd

(***************************************************************************)
(* C40: the watcher never runs two calls of its callback at the same time: *)
(* an event that arrives while a re-run is under way starts no second run  *)
(* that overlaps it.                                                       *)
(***************************************************************************)
C40_NoOverlappingReruns ==
    watch.running <= 1

====
